---- MODULE Spec2Model ----
(***************************************************************************)
(* Model of the chat plugin's core: the agent-response stream reducer      *)
(* (AgentService.sendMessage), the session store (SessionManager) and the  *)
(* conversation orchestrator (ChatContainer).                              *)
(*                                                                         *)
(* Strings are sequences of tokens.  A JavaScript value whose type the     *)
(* code probes (typeof, Array.isArray, truthiness) is a record tagged with *)
(* its kind.                                                               *)
(***************************************************************************)
EXTENDS Integers, Sequences, FiniteSets, TLC

(***************************************************************************)
(* JavaScript values                                                       *)
(***************************************************************************)
Undef == [kind |-> "undefined"]
Str(s) == [kind |-> "string", v |-> s]
Arr(a) == [kind |-> "array", v |-> a]
Obj(o) == [kind |-> "object", v |-> o]
Bool(b) == [kind |-> "boolean", v |-> b]
Num(n) == [kind |-> "number", v |-> n]

\* JavaScript truthiness: undefined, '', 0 and false are falsy
Truthy(x) ==
    CASE x.kind = "undefined" -> FALSE
      [] x.kind = "string" -> x.v # <<>>
      [] x.kind = "number" -> x.v # 0
      [] x.kind = "boolean" -> x.v
      [] OTHER -> TRUE

\* x || 0 on a counter
OrZero(x) == IF Truthy(x) THEN x.v ELSE 0

\* x || false on a flag
OrFalse(x) == IF Truthy(x) THEN (IF x.kind = "boolean" THEN x.v ELSE TRUE) ELSE FALSE

\* JSON.stringify(value, null, 2) of a non-string value
JsonStringify(o) == <<"{", o, "}">>

RECURSIVE Concat(_)
\* concatenation of a sequence of strings ( .join('') )
Concat(ss) == IF ss = <<>> THEN <<>> ELSE Head(ss) \o Concat(Tail(ss))

\* blocks.filter(b => b.type === 'text').map(b => b.text).join('')
JoinText(blocks) ==
    Concat([i \in 1..Len(SelectSeq(blocks, LAMBDA b : b.type = "text")) |->
               SelectSeq(blocks, LAMBDA b : b.type = "text")[i].text])

RECURSIVE TrimLeft(_)
TrimLeft(s) == IF s # <<>> /\ Head(s) = " " THEN TrimLeft(Tail(s)) ELSE s

RECURSIVE TrimRight(_)
TrimRight(s) ==
    IF s # <<>> /\ s[Len(s)] = " " THEN TrimRight(SubSeq(s, 1, Len(s) - 1)) ELSE s

\* String.prototype.trim
Trim(s) == TrimRight(TrimLeft(s))

OpenTag == "<local-command-stdout>"
CloseTag == "</local-command-stdout>"

\* content.match(/<local-command-stdout>([\s\S]*?)<\/local-command-stdout>/):
\* the leftmost opening tag that has a closing tag after it, and the text up
\* to the first closing tag after it, as the match array <<whole, group 1>>;
\* Undef (null) when there is no match
StdoutMatch(s) ==
    LET opens == {i \in 1..Len(s) :
                    s[i] = OpenTag /\ \E j \in (i+1)..Len(s) : s[j] = CloseTag}
    IN IF opens = {} THEN Undef
       ELSE LET i == CHOOSE k \in opens : \A m \in opens : k <= m
                j == CHOOSE k \in (i+1)..Len(s) :
                        s[k] = CloseTag /\ \A m \in (i+1)..(k-1) : s[m] # CloseTag
            IN Arr(<<SubSeq(s, i, j), SubSeq(s, i + 1, j - 1)>>)

(***************************************************************************)
(* Usage accounting                                                        *)
(***************************************************************************)
(* A JavaScript number that is not a counter: IEEE-754 binary64, here the  *)
(* non-negative normal ones.  Such a number is zero (no bits), or a        *)
(* significand of Precision bits, most significant first and the first    *)
(* one 1, times 2^exp.  Every operation computes the exact result and     *)
(* rounds it to nearest, ties to even.  The token counters are integers,  *)
(* exact in binary64.                                                      *)
\* bits of the significand of a binary64 number
Precision == 53

FloatZero == [bits |-> <<>>, exp |-> 0]

Zeros(n) == [k \in 1..n |-> 0]

\* the bit string b without its leading zeros
StripZeros(b) ==
    IF \A k \in 1..Len(b) : b[k] = 0 THEN <<>>
    ELSE SubSeq(b, CHOOSE i \in 1..Len(b) : b[i] = 1 /\ \A j \in 1..(i - 1) : b[j] = 0,
                Len(b))

\* left-pad the bit string b to n bits
PadTo(b, n) == Zeros(n - Len(b)) \o b

\* the bits of a + b + carry, for a and b of the same length n: n + 1 bits.
\* A carry enters position k when a lower position generates one and every
\* position between propagates it.
AddBits(a, b, carry) ==
    LET n == Len(a)
        Generates(j) == IF j = n + 1 THEN carry = 1 ELSE a[j] + b[j] = 2
        CarryInto(k) ==
            \E j \in (k + 1)..(n + 1) :
                Generates(j) /\ \A m \in (k + 1)..(j - 1) : a[m] + b[m] = 1
    IN [k \in 1..(n + 1) |->
          IF k = 1 THEN (IF CarryInto(0) THEN 1 ELSE 0)
          ELSE (a[k - 1] + b[k - 1] + (IF CarryInto(k - 1) THEN 1 ELSE 0)) % 2]

\* the binary64 number nearest to raw * 2^exp, ties to even
RoundToNearest(raw, exp) ==
    LET b == StripZeros(raw)
        n == Len(b)
    IN IF n = 0 THEN FloatZero
       ELSE IF n <= Precision
       THEN [bits |-> b \o Zeros(Precision - n), exp |-> exp - (Precision - n)]
       ELSE LET kept == SubSeq(b, 1, Precision)
                rest == SubSeq(b, Precision + 1, n)
                up == /\ rest[1] = 1
                      /\ \/ \E k \in 2..Len(rest) : rest[k] = 1
                         \/ kept[Precision] = 1
                next == AddBits(kept, Zeros(Precision), 1)
                e == exp + (n - Precision)
            IN IF ~up THEN [bits |-> kept, exp |-> e]
               ELSE IF next[1] = 1
               THEN [bits |-> SubSeq(next, 1, Precision), exp |-> e + 1]
               ELSE [bits |-> Tail(next), exp |-> e]

\* x + y
FloatAdd(x, y) ==
    IF x.bits = <<>> THEN y
    ELSE IF y.bits = <<>> THEN x
    ELSE LET e == IF x.exp < y.exp THEN x.exp ELSE y.exp
             a == x.bits \o Zeros(x.exp - e)
             b == y.bits \o Zeros(y.exp - e)
             n == IF Len(a) > Len(b) THEN Len(a) ELSE Len(b)
         IN RoundToNearest(AddBits(PadTo(a, n), PadTo(b, n), 0), e)

\* how many bits the natural number n has
BitLength(n) == Cardinality({k \in 0..30 : 2^k <= n})

\* the bits of the natural number n, left-padded to at least `width` bits
BitsOf(n, width) ==
    LET len == IF BitLength(n) > width THEN BitLength(n) ELSE width
    IN [k \in 1..len |-> (n \div 2^(len - k)) % 2]

\* the bits of a quotient are produced ChunkBits at a time
ChunkBits == 10

RECURSIVE FractionBits(_, _, _)
\* the first chunks * ChunkBits bits of r / d after the binary point (r < d),
\* then one more bit that is 1 iff a remainder is left
FractionBits(r, d, chunks) ==
    IF chunks = 0 THEN <<IF r = 0 THEN 0 ELSE 1>>
    ELSE BitsOf((r * 2^ChunkBits) \div d, ChunkBits)
           \o FractionBits((r * 2^ChunkBits) % d, d, chunks - 1)

\* n / d for a counter n and a positive integer d below 2^21: the quotient
\* to more than Precision + 1 significant bits, rounded
FloatDivide(n, d) ==
    IF n = 0 THEN FloatZero ELSE
    LET int == BitsOf(n \div d, 0)
        frac == FractionBits(n % d, d, (Precision + 1 + BitLength(d)) \div ChunkBits + 1)
    IN RoundToNearest(int \o frac, 0 - Len(frac))

RECURSIVE TimesBits(_, _)
\* the bits of b * k
TimesBits(b, k) ==
    IF k = 0 THEN <<>>
    ELSE LET twice == TimesBits(b, k \div 2) \o <<0>>
             n == IF Len(twice) > Len(b) THEN Len(twice) ELSE Len(b)
         IN IF k % 2 = 0 THEN twice
            ELSE AddBits(PadTo(twice, n), PadTo(b, n), 0)

\* x * k for an integer k that binary64 represents exactly
FloatTimes(x, k) == RoundToNearest(TimesBits(x.bits, k), x.exp)

\* x <= y
FloatLeq(x, y) ==
    \/ x.bits = <<>>
    \/ /\ y.bits # <<>>
       /\ \/ x.exp < y.exp
          \/ /\ x.exp = y.exp
             /\ \A k \in 1..Precision :
                   (\A j \in 1..(k - 1) : x.bits[j] = y.bits[j]) => x.bits[k] <= y.bits[k]

\* price per 1M input tokens, USD
DEFAULT_INPUT_PRICE == 3
\* price per 1M output tokens, USD
DEFAULT_OUTPUT_PRICE == 15
\* 1_000_000
Million == 1000000

\* the integer n as a binary64 number
FloatOf(n) == RoundToNearest(BitsOf(n, 0), 0)

\* calculateCost, computed
CostOf(inputTokens, outputTokens) ==
    LET inputCost == FloatTimes(FloatDivide(inputTokens, Million), DEFAULT_INPUT_PRICE)
        outputCost == FloatTimes(FloatDivide(outputTokens, Million), DEFAULT_OUTPUT_PRICE)
    IN FloatAdd(inputCost, outputCost)

\* the token counts of the messages and sessions considered here
TokenCounts == {0, 1, 2, 3, Million}

\* the costs of these counts, computed once
Costs == {<<i, o, CostOf(i, o)>> : i \in TokenCounts, o \in TokenCounts}

calculateCostSwapped(inputTokens, outputTokens) ==
    CostOf(outputTokens, inputTokens)

\* calculateCost
calculateCost(inputTokens, outputTokens) ==
    IF inputTokens \in TokenCounts /\ outputTokens \in TokenCounts
    THEN (CHOOSE c \in Costs : c[1] = inputTokens /\ c[2] = outputTokens)[3]
    ELSE CostOf(inputTokens, outputTokens)

\* the UsageStats built from a message's usage object
UsageFrom(u) ==
    LET inputTokens == OrZero(u.input_tokens)
        outputTokens == OrZero(u.output_tokens)
    IN [inputTokens |-> inputTokens,
        outputTokens |-> outputTokens,
        totalTokens |-> inputTokens + outputTokens,
        estimatedCost |-> calculateCost(inputTokens, outputTokens)]

NoUsage == [kind |-> "undefined"]

(***************************************************************************)
(* The stream reducer: the body of  for await (const msg of q)             *)
(***************************************************************************)
ClearedText == <<"Conversation cleared. Starting fresh session.">>

\* the compact_boundary summary text
CompactText(metadata) ==
    <<"Conversation compacted.\nPre-compaction tokens: ">>
      \o (IF Truthy(metadata.pre_tokens)
          THEN <<ToString(metadata.pre_tokens.v)>> ELSE <<"N/A">>)
      \o <<"\nTrigger: ">>
      \o (IF Truthy(metadata.trigger) THEN metadata.trigger.v ELSE <<"manual">>)

\* getCommandDescription
getCommandDescription(name) ==
    CASE name = <<"/", "compact">> -> "Compact conversation history to save tokens"
      [] name = <<"/", "clear">> -> "Clear conversation and start fresh"
      [] name = <<"/", "help">> -> "Show available commands and help"
      [] OTHER -> ""

\* a command as the init handler stores it: the name gets a leading slash
\* when it has none
CommandEntry(cmd) ==
    LET name == IF cmd # <<>> /\ Head(cmd) = "/" THEN cmd ELSE <<"/">> \o cmd
    IN [name |-> name, description |-> getCommandDescription(name)]

\* the commands before any init message (the first entries of the list)
DEFAULT_SLASH_COMMANDS ==
    <<[name |-> <<"/", "compact">>,
       description |-> "Compact conversation history to save tokens"],
      [name |-> <<"/", "clear">>, description |-> "Clear conversation and start fresh"]>>

\* the reducer's locals when the loop is entered
InitReducer ==
    [responseContent |-> <<>>,
     toolResults |-> <<>>,
     sdkSessionId |-> <<>>,
     usage |-> NoUsage,
     called |-> FALSE,
     partial |-> <<>>]

FindToolPositional(toolResults, toolUseId) == Len(toolResults)

\* toolResults.find(t => t.id === toolUseId): the index of the first match, 0 if none
FindTool(toolResults, toolUseId) ==
    LET hits == {i \in 1..Len(toolResults) : toolResults[i].id = toolUseId}
    IN IF hits = {} THEN 0 ELSE CHOOSE i \in hits : \A j \in hits : i <= j

\* an init branch that puts the placeholder over any text
StepInitAlways(st, msg) ==
    IF msg.type = "system" /\ msg.subtype = "init"
    THEN [st EXCEPT !.responseContent = ClearedText]
    ELSE st

\* system/init: the placeholder text
StepInit(st, msg) ==
    IF msg.type = "system" /\ msg.subtype = "init" /\ st.responseContent = <<>>
    THEN [st EXCEPT !.responseContent = ClearedText]
    ELSE st

\* system/init: the command list the message installs
StepCommands(cmds, msg) ==
    IF msg.type = "system" /\ msg.subtype = "init" /\ msg.slash_commands.kind = "array"
    THEN [i \in 1..Len(msg.slash_commands.v) |-> CommandEntry(msg.slash_commands.v[i])]
    ELSE cmds

\* system messages: compact boundary, message string, content array
StepSystem(st, msg) ==
    IF msg.type # "system" THEN st
    ELSE
      LET s1 == IF msg.subtype = "compact_boundary"
                THEN [st EXCEPT !.responseContent =
                        CompactText(IF Truthy(msg.compact_metadata)
                                    THEN msg.compact_metadata.v
                                    ELSE [pre_tokens |-> Undef, trigger |-> Undef])]
                ELSE st
          s2 == IF Truthy(msg.message) /\ msg.message.kind = "string"
                THEN [s1 EXCEPT !.responseContent = msg.message.v]
                ELSE s1
          s3 == IF Truthy(msg.content) /\ msg.content.kind = "array"
                   /\ JoinText(msg.content.v) # <<>>
                THEN [s2 EXCEPT !.responseContent = JoinText(msg.content.v)]
                ELSE s2
      IN s3

\* a stream_event branch that reports the text on every stream event
StepDeltaAnyEvent(st, msg, hasCallback) ==
    IF msg.type = "stream_event" /\ hasCallback
    THEN LET delta == IF msg.event.type = "content_block_delta"
                         /\ msg.event.delta.type = "text_delta"
                      THEN msg.event.delta.text.v ELSE <<>>
         IN [st EXCEPT !.responseContent = @ \o delta,
                       !.called = TRUE,
                       !.partial = st.responseContent \o delta]
    ELSE st

\* stream_event: a text delta is appended and reported
StepDelta(st, msg, hasCallback) ==
    IF msg.type = "stream_event"
       /\ msg.event.type = "content_block_delta"
       /\ msg.event.delta.type = "text_delta"
       /\ Truthy(msg.event.delta.text) /\ hasCallback
    THEN [st EXCEPT !.responseContent = @ \o msg.event.delta.text.v,
                    !.called = TRUE,
                    !.partial = st.responseContent \o msg.event.delta.text.v]
    ELSE st

\* getAssistantText
getAssistantText(msg) ==
    IF msg.type # "assistant" THEN Undef ELSE Str(JoinText(msg.message.content))

\* the full text of an assistant message replaces the text
StepAssistantText(st, msg, hasCallback) ==
    LET text == getAssistantText(msg)
    IN IF Truthy(text)
       THEN [st EXCEPT !.responseContent = text.v,
                       !.called = IF hasCallback THEN TRUE ELSE @,
                       !.partial = IF hasCallback THEN text.v ELSE @]
       ELSE st

\* the ToolResult pushed for a tool_use block
Announced(toolUse) ==
    [tool |-> toolUse.name, input |-> toolUse.input, output |-> <<>>,
     isError |-> FALSE, id |-> toolUse.id]

\* assistant: one ToolResult per tool_use block, and the usage
StepAssistantTools(st, msg) ==
    IF msg.type # "assistant" THEN st
    ELSE
      LET toolUseBlocks == SelectSeq(msg.message.content, LAMBDA b : b.type = "tool_use")
          pushed == st.toolResults \o
                      [i \in 1..Len(toolUseBlocks) |-> Announced(toolUseBlocks[i])]
      IN [st EXCEPT !.toolResults = pushed,
                    !.usage = IF Truthy(msg.message.usage)
                              THEN UsageFrom(msg.message.usage.v) ELSE @]

\* the output a tool_result / tool_progress message leaves in the invocation
ResultOutput(old, m) ==
    LET o1 == IF Truthy(m.content)
              THEN (IF m.content.kind = "string" THEN m.content.v
                    ELSE IF m.content.kind = "array" THEN JoinText(m.content.v)
                    ELSE old)
              ELSE old
    IN IF Truthy(m.output)
       THEN (IF m.output.kind = "string" THEN m.output.v ELSE JsonStringify(m.output.v))
       ELSE o1

StepToolResultRetroactive(st, msg) ==
    IF msg.type \notin {"tool_result", "tool_progress"} THEN st
    ELSE
      LET k == FindTool(st.toolResults, msg.tool_use_id)
      IN IF k = 0
         THEN [st EXCEPT !.toolResults =
                 Append(@, [tool |-> "", input |-> "{}", output |-> ResultOutput(<<>>, msg),
                            isError |-> OrFalse(msg.is_error), id |-> msg.tool_use_id])]
         ELSE [st EXCEPT !.toolResults[k].output = ResultOutput(@, msg),
                         !.toolResults[k].isError = OrFalse(msg.is_error)]

\* tool_result / tool_progress: the matching invocation is updated
StepToolResult(st, msg) ==
    IF msg.type \notin {"tool_result", "tool_progress"} THEN st
    ELSE
      LET k == FindTool(st.toolResults, msg.tool_use_id)
      IN IF k = 0 THEN st
         ELSE [st EXCEPT !.toolResults[k].output = ResultOutput(@, msg),
                         !.toolResults[k].isError = OrFalse(msg.is_error)]

\* the output a tool_result block of a user message leaves in the invocation
BlockOutput(old, block) ==
    IF block.content.kind = "string" THEN block.content.v
    ELSE IF block.content.kind = "array" THEN JoinText(block.content.v)
    ELSE old

\* one tool_result block of a user message
ApplyBlock(toolResults, block) ==
    IF block.type # "tool_result" THEN toolResults
    ELSE
      LET k == FindTool(toolResults, block.tool_use_id)
      IN IF k = 0 THEN toolResults
         ELSE [toolResults EXCEPT ![k].output = BlockOutput(@, block),
                                  ![k].isError = OrFalse(block.is_error)]

RECURSIVE ApplyBlocks(_, _)
\* for (const block of content)
ApplyBlocks(toolResults, blocks) ==
    IF blocks = <<>> THEN toolResults
    ELSE ApplyBlocks(ApplyBlock(toolResults, Head(blocks)), Tail(blocks))

\* user: local command output, or tool_result blocks
StepUser(st, msg) ==
    IF msg.type # "user" \/ ~Truthy(msg.message.content) THEN st
    ELSE
      LET content == msg.message.content
      IN IF content.kind = "string"
         THEN (IF Truthy(StdoutMatch(content.v))
               THEN [st EXCEPT !.responseContent = Trim(StdoutMatch(content.v).v[2])]
               ELSE st)
         ELSE IF content.kind = "array"
         THEN [st EXCEPT !.toolResults = ApplyBlocks(@, content.v)]
         ELSE st

\* a result branch that keeps the usage an assistant message gave
StepResultKeepsUsage(st, msg) ==
    IF msg.type # "result" THEN st
    ELSE
      LET s1 == IF Truthy(msg.result)
                THEN [st EXCEPT !.responseContent =
                        IF msg.result.kind = "string" THEN msg.result.v
                        ELSE JsonStringify(msg.result.v)]
                ELSE st
      IN IF Truthy(msg.usage) /\ st.usage = NoUsage
         THEN [s1 EXCEPT !.usage = UsageFrom(msg.usage.v)]
         ELSE s1

\* result: the payload replaces the text, and the usage
StepResult(st, msg) ==
    IF msg.type # "result" THEN st
    ELSE
      LET s1 == IF Truthy(msg.result)
                THEN [st EXCEPT !.responseContent =
                        IF msg.result.kind = "string" THEN msg.result.v
                        ELSE JsonStringify(msg.result.v)]
                ELSE st
      IN IF Truthy(msg.usage)
         THEN [s1 EXCEPT !.usage = UsageFrom(msg.usage.v)]
         ELSE s1

\* a loop that keeps the first session id a message supplied
ReduceKeepsId(st, msg, hasCallback) ==
    LET s0 == [st EXCEPT !.sdkSessionId = IF @ # <<>> THEN @ ELSE msg.session_id,
                         !.called = FALSE]
        s1 == StepInit(s0, msg)
        s2 == StepSystem(s1, msg)
        s3 == StepDelta(s2, msg, hasCallback)
        s4 == StepAssistantText(s3, msg, hasCallback)
        s5 == StepAssistantTools(s4, msg)
        s6 == StepToolResult(s5, msg)
        s7 == StepUser(s6, msg)
    IN StepResult(s7, msg)

\* one iteration of the loop on msg
Reduce(st, msg, hasCallback) ==
    LET s0 == [st EXCEPT !.sdkSessionId = msg.session_id, !.called = FALSE]
        s1 == StepInit(s0, msg)
        s2 == StepSystem(s1, msg)
        s3 == StepDelta(s2, msg, hasCallback)
        s4 == StepAssistantText(s3, msg, hasCallback)
        s5 == StepAssistantTools(s4, msg)
        s6 == StepToolResult(s5, msg)
        s7 == StepUser(s6, msg)
    IN StepResult(s7, msg)

\* the AgentResponse returned when the stream is exhausted
Response(st, sessionId) ==
    [content |-> st.responseContent,
     sessionId |-> IF st.sdkSessionId # <<>> THEN st.sdkSessionId ELSE sessionId,
     toolResults |-> IF Len(st.toolResults) > 0 THEN Arr(st.toolResults) ELSE Undef,
     usage |-> st.usage]

(***************************************************************************)
(* The messages the transport may yield                                    *)
(***************************************************************************)
R1 == <<"r1">>
R2 == <<"r2">>

TextBlock(t) == [type |-> "text", text |-> t]
ToolUse(name, id) == [type |-> "tool_use", name |-> name, input |-> "{}", id |-> id]
ImageBlock == [type |-> "image"]
ResultBlock(id, content, isError) ==
    [type |-> "tool_result", tool_use_id |-> id, content |-> content, is_error |-> isError]

Delta(t, sid) ==
    [type |-> "stream_event", session_id |-> sid,
     event |-> [type |-> "content_block_delta",
                delta |-> [type |-> "text_delta", text |-> Str(t)]]]
JsonDelta(sid) ==
    [type |-> "stream_event", session_id |-> sid,
     event |-> [type |-> "content_block_delta", delta |-> [type |-> "input_json_delta"]]]
Assistant(blocks, usage, sid) ==
    [type |-> "assistant", session_id |-> sid,
     message |-> [content |-> blocks, usage |-> usage]]
ToolMsg(type, id, content, output, isError, sid) ==
    [type |-> type, session_id |-> sid, tool_use_id |-> id,
     content |-> content, output |-> output, is_error |-> isError]
UserMsg(content, sid) ==
    [type |-> "user", session_id |-> sid, message |-> [content |-> content]]
SystemMsg(subtype, commands, metadata, message, content, sid) ==
    [type |-> "system", session_id |-> sid, subtype |-> subtype,
     slash_commands |-> commands, compact_metadata |-> metadata,
     message |-> message, content |-> content]
ResultMsg(result, usage, sid) ==
    [type |-> "result", session_id |-> sid, result |-> result, usage |-> usage]
OtherMsg(sid) == [type |-> "auth_status", session_id |-> sid]

Counters(i, o) == Obj([input_tokens |-> i, output_tokens |-> o])

DeltaMsgs == {Delta(<<"a">>, R1), Delta(<<"b">>, R2), Delta(<<>>, R1)}

AssistantMsgs ==
    {Assistant(<<TextBlock(<<"a">>)>>, Undef, R1),
     Assistant(<<TextBlock(<<"a">>), TextBlock(<<"b">>)>>, Counters(Num(1), Num(2)), R1),
     Assistant(<<ToolUse("Read", "X")>>, Undef, R1),
     Assistant(<<ToolUse("Read", "X"), ToolUse("Bash", "Y")>>,
               Counters(Num(Million), Undef), R1)}

ToolMsgs ==
    {ToolMsg("tool_result", "X", Str(<<"a">>), Undef, Bool(TRUE), R1),
     ToolMsg("tool_result", "X", Str(<<>>), Undef, Undef, R1),
     ToolMsg("tool_progress", "X", Undef, Undef, Undef, R1),
     ToolMsg("tool_result", "Y",
             Arr(<<TextBlock(<<"a">>), ImageBlock, TextBlock(<<"b">>)>>),
             Undef, Bool(FALSE), R1),
     ToolMsg("tool_progress", "Y", Undef, Str(<<"b">>), Bool(TRUE), R1),
     ToolMsg("tool_result", "X", Str(<<"a">>), Obj("o"), Undef, R1),
     ToolMsg("tool_result", "Z", Str(<<"b">>), Undef, Bool(TRUE), R1)}

UserMsgs ==
    {UserMsg(Str(<<OpenTag, " ", "a", " ", CloseTag>>), R1),
     UserMsg(Str(<<"a">>), R1),
     UserMsg(Arr(<<ResultBlock("X", Str(<<"b">>), Bool(TRUE))>>), R1),
     UserMsg(Arr(<<TextBlock(<<"a">>),
                   ResultBlock("Y", Arr(<<TextBlock(<<"a">>)>>), Undef)>>), R1),
     UserMsg(Arr(<<ResultBlock("X", Undef, Undef)>>), R1),
     UserMsg(Arr(<<ResultBlock("Z", Str(<<"a">>), Bool(TRUE))>>), R1)}

SystemMsgs ==
    {SystemMsg("init", Arr(<<<<"/", "clear">>, <<"cost">>>>), Undef, Undef, Undef, R1),
     SystemMsg("compact_boundary", Undef,
               Obj([pre_tokens |-> Num(5), trigger |-> Undef]),
               Undef, Undef, R1),
     SystemMsg("status", Undef, Undef, Str(<<"a">>), Undef, R1),
     SystemMsg("status", Undef, Undef, Undef, Arr(<<TextBlock(<<"b">>)>>), R1)}

ResultMsgs ==
    {ResultMsg(Str(<<"b">>), Counters(Num(0), Num(Million)), R1),
     ResultMsg(Str(<<>>), Undef, R2),
     ResultMsg(Obj("o"), Counters(Undef, Undef), R1)}

\* messages of kinds the loop has no branch for; one carries no session id
OtherMsgs == {JsonDelta(R1), OtherMsg(R2), OtherMsg(<<>>)}

\* every message the reducer is exercised with
Messages ==
    DeltaMsgs \cup AssistantMsgs \cup ToolMsgs \cup UserMsgs \cup SystemMsgs
      \cup ResultMsgs \cup OtherMsgs

\* the errors the transport may raise
TransportErrors == {[message |-> "process exited with code 1"]}

\* the longest stream of one reducer run
MaxStream == 3

(***************************************************************************)
(* The session store (SessionManager).  this.sessions is a Map: a sequence *)
(* of sessions in insertion order.  A session's usage is an object shared  *)
(* by every copy of the session ({...session}), so a session holds a       *)
(* reference into the heap of usage objects.                               *)
(***************************************************************************)
Null == [kind |-> "null"]

DEFAULT_USAGE ==
    [inputTokens |-> 0, outputTokens |-> 0, totalTokens |-> 0,
     estimatedCost |-> FloatZero]

DefaultTitle == <<"New Conversation">>

\* this.sessions.get(id) || null
MapGet(m, id) ==
    IF \E i \in 1..Len(m) : m[i].id = id
    THEN m[CHOOSE i \in 1..Len(m) : m[i].id = id]
    ELSE Null

\* this.sessions.set(session.id, session): an existing key keeps its place
MapSet(m, session) ==
    IF \E i \in 1..Len(m) : m[i].id = session.id
    THEN [i \in 1..Len(m) |-> IF m[i].id = session.id THEN session ELSE m[i]]
    ELSE Append(m, session)

\* this.sessions.delete(id)
MapDelete(m, id) == SelectSeq(m, LAMBDA x : x.id # id)

\* how many entries the stable descending sort puts before entry i
Before(list, i) ==
    Cardinality({j \in 1..Len(list) :
                    \/ list[j].updatedAt > list[i].updatedAt
                    \/ list[j].updatedAt = list[i].updatedAt /\ j < i})

\* Array.from(values).sort((a, b) => b.updatedAt - a.updatedAt); the sort is
\* stable, so entries with equal updatedAt keep their order
SortByUpdated(list) ==
    [k \in 1..Len(list) |->
        list[CHOOSE i \in 1..Len(list) : Before(list, i) = k - 1]]

\* .slice(0, n)
Slice(list, n) == SubSeq(list, 1, IF n < Len(list) THEN n ELSE Len(list))

\* DEFAULT_SETTINGS.maxSessionHistory, the value of the setting when the stored
\* data holds none
MaxSessionHistory == 2

\* what JSON serialization writes of a session: its usage by value
Serialized(session, heap) == [session EXCEPT !.usage = heap[session.usage]]

\* persistSessions: the array put under SESSIONS_KEY
PersistedArray(m, heap, maxSessions) ==
    LET sessionsArray == Slice(SortByUpdated(m), maxSessions)
    IN [i \in 1..Len(sessionsArray) |-> Serialized(sessionsArray[i], heap)]

\* getAllSessions
getAllSessions(m) == SortByUpdated(m)

\* the session createNewSession builds
NewSession(id, now) ==
    [id |-> id, sessionId |-> Null, title |-> DefaultTitle, messages |-> <<>>,
     createdAt |-> now, updatedAt |-> now, usage |-> <<id, 0>>]

\* the first message with role user, Null if none ( messages.find )
FirstUserMsg(messages) ==
    IF \E i \in 1..Len(messages) : messages[i].role = "user"
    THEN messages[CHOOSE i \in 1..Len(messages) :
                    messages[i].role = "user"
                    /\ \A j \in 1..(i-1) : messages[j].role # "user"]
    ELSE Null

\* the longest auto-derived title before the ellipsis
TitleLength == 50

\* a saveSession that puts the ellipsis after a message of exactly
\* TitleLength characters too
DerivedTitleAtLength(session) ==
    IF session.title = DefaultTitle /\ Len(session.messages) > 0
       /\ FirstUserMsg(session.messages) # Null
    THEN LET content == FirstUserMsg(session.messages).content
         IN Slice(content, TitleLength)
              \o (IF Len(content) >= TitleLength THEN <<"...">> ELSE <<>>)
    ELSE session.title

\* saveSession: the title of the saved session
DerivedTitle(session) ==
    IF session.title = DefaultTitle /\ Len(session.messages) > 0
       /\ FirstUserMsg(session.messages) # Null
    THEN LET content == FirstUserMsg(session.messages).content
         IN Slice(content, TitleLength)
              \o (IF Len(content) > TitleLength THEN <<"...">> ELSE <<>>)
    ELSE session.title

\* saveSession: the object put into the map
Saved(session, now) ==
    [session EXCEPT !.title = DerivedTitle(session), !.updatedAt = now]

\* an addition that takes the total of the last turn
AccumulatedLastTotal(total, usage) ==
    [inputTokens |-> total.inputTokens + usage.inputTokens,
     outputTokens |-> total.outputTokens + usage.outputTokens,
     totalTokens |-> usage.totalTokens,
     estimatedCost |-> FloatAdd(total.estimatedCost, usage.estimatedCost)]

\* updateUsage: the usage object after the addition
Accumulated(total, usage) ==
    [inputTokens |-> total.inputTokens + usage.inputTokens,
     outputTokens |-> total.outputTokens + usage.outputTokens,
     totalTokens |-> total.totalTokens + usage.totalTokens,
     estimatedCost |-> FloatAdd(total.estimatedCost, usage.estimatedCost)]

\* loadAllSessions: the objects parsed from the stored array by load number k
Parsed(stored, k) ==
    [i \in 1..Len(stored) |-> [stored[i] EXCEPT !.usage = <<stored[i].id, k>>]]

RECURSIVE Populate(_, _)
\* loadAllSessions: sessionsData.forEach(s => this.sessions.set(s.id, s))
Populate(m, list) ==
    IF list = <<>> THEN m ELSE Populate(MapSet(m, Head(list)), Tail(list))

\* loadAllSessions: the usage objects of the parsed sessions (legacy sessions
\* without usage get DEFAULT_USAGE)
ParsedUsage(stored, k, heap) ==
    [r \in DOMAIN heap \cup {<<stored[i].id, k>> : i \in 1..Len(stored)} |->
        IF \E i \in 1..Len(stored) : r = <<stored[i].id, k>>
        THEN LET x == stored[CHOOSE i \in 1..Len(stored) : r = <<stored[i].id, k>>]
             IN IF x.usage = Undef THEN DEFAULT_USAGE ELSE x.usage
        ELSE heap[r]]

(***************************************************************************)
(* One call of AgentService.sendMessage, message by message                *)
(***************************************************************************)
VARIABLES
    onStreamUpdate,     \* whether the caller passed the callback
    stream,             \* the messages the transport has yielded so far
    locals,             \* responseContent, toolResults, sdkSessionId, usage
    outcome,            \* pending, or what the call returned or threw
    thrown,             \* the error the transport raised, if it did
    availableCommands,  \* AgentService.availableCommands
    ui,                 \* ChatContainer's React state
    rendered,           \* the state the closures of the last render captured
    sessions,           \* SessionManager.sessions
    loaded,             \* SessionManager.loaded
    heap,               \* the usage objects, by reference
    disk,               \* what plugin.loadData() returns
    tasks,              \* the async calls in flight, in the order they started
    now,                \* Date.now()
    nextId,             \* the next uuidv4() of a session
    loads,              \* how many times the stored array was parsed
    ops,                \* how many user events happened
    lastOp,             \* the last user event
    requests,           \* how many transport requests were issued
    settings            \* ClaudeAgentPlugin.settings

reducerVars == <<onStreamUpdate, stream, locals, outcome, thrown>>

chatVars == <<ui, rendered, sessions, loaded, heap, disk, tasks, now, nextId,
              loads, ops, lastOp, requests, settings>>

vars == <<reducerVars, availableCommands, chatVars>>

\* useState initial values of ChatContainer
InitialUi ==
    [messages |-> <<>>, isLoading |-> FALSE, currentSession |-> Null,
     sessions |-> <<>>, error |-> Null, streamingContent |-> <<>>,
     slashCommands |-> <<>>]

\* what the handlers created by a render read of the state
Snapshot(state) ==
    [messages |-> state.messages, isLoading |-> state.isLoading,
     currentSession |-> state.currentSession, sessions |-> state.sessions]

NoHeap == [r \in {} |-> DEFAULT_USAGE]

NoOp == [kind |-> "none", content |-> <<>>]

\* DEFAULT_SETTINGS.activeTemplateId
DefaultTemplate == [kind |-> "null"]

\* loadSettings: Object.assign({}, DEFAULT_SETTINGS, data) keeps every key of
\* the stored data, the session list among them
loadSettings(data) ==
    [activeTemplateId |-> IF "activeTemplateId" \in DOMAIN data
                          THEN data.activeTemplateId ELSE DefaultTemplate,
     maxSessionHistory |-> IF "maxSessionHistory" \in DOMAIN data
                           THEN data.maxSessionHistory ELSE MaxSessionHistory,
     sessions |-> data.sessions]

\* the chat view is not open
ViewClosed ==
    /\ ui = InitialUi
    /\ rendered = Snapshot(InitialUi)
    /\ sessions = <<>>
    /\ loaded = FALSE
    /\ heap = NoHeap
    /\ disk = [sessions |-> <<>>]
    /\ tasks = <<>>
    /\ now = 0
    /\ nextId = 1
    /\ loads = 0
    /\ ops = 0
    /\ lastOp = NoOp
    /\ requests = 0
    /\ settings = loadSettings(disk)

NoError == [message |-> ""]

LocalSessionId == <<"local">>

ReducerInit ==
    /\ onStreamUpdate \in BOOLEAN
    /\ stream = <<>>
    /\ locals = InitReducer
    /\ outcome = [kind |-> "pending"]
    /\ thrown = NoError
    /\ availableCommands = DEFAULT_SLASH_COMMANDS
    /\ ViewClosed

\* the transport yields msg and the loop body runs on it
Deliver(msg) ==
    /\ outcome.kind = "pending"
    /\ Len(stream) < MaxStream
    /\ stream' = Append(stream, msg)
    /\ locals' = Reduce(locals, msg, onStreamUpdate)
    /\ availableCommands' = StepCommands(availableCommands, msg)
    /\ UNCHANGED <<onStreamUpdate, outcome, thrown, chatVars>>

\* the stream is exhausted: the call returns
EndOfStream ==
    /\ outcome.kind = "pending"
    /\ outcome' = [kind |-> "returned", response |-> Response(locals, LocalSessionId)]
    /\ UNCHANGED <<onStreamUpdate, stream, locals, thrown, availableCommands, chatVars>>

CaughtWrapped(error) ==
    [kind |-> "rejected", error |-> [message |-> "Agent service error"]]

\* what the catch block makes of a thrown error
Caught(error) == [kind |-> "rejected", error |-> error]

\* the transport raises, before or during the iteration
TransportThrows(error) ==
    /\ outcome.kind = "pending"
    /\ thrown' = error
    /\ outcome' = Caught(error)
    /\ UNCHANGED <<onStreamUpdate, stream, locals, availableCommands, chatVars>>

ReducerNext ==
    \/ \E msg \in Messages : Deliver(msg)
    \/ EndOfStream
    \/ \E error \in TransportErrors : TransportThrows(error)

ReducerSpec == ReducerInit /\ [][ReducerNext]_vars

(***************************************************************************)
(* The chat view (ChatContainer) over the session store.  Every async call *)
(* is a task that advances when the promise it awaits settles: loadData,   *)
(* saveData, or the transport's stream.  What runs between two such awaits *)
(* runs without interruption.                                              *)
(***************************************************************************)
\* user events in one run
MaxOps == 2
\* the latest clock value
MaxTime == 1
\* the longest stream of one turn
MaxTurnStream == 1

\* what the user may type
Contents == {<<"h", "i">>, <<" ">>, <<>>}

\* the messages a turn's transport yields here
TurnMessages ==
    {Delta(<<"a">>, R1),
     Assistant(<<TextBlock(<<"b">>), ToolUse("Read", "X")>>, Counters(Num(1), Num(2)), R1),
     ResultMsg(Str(<<"b">>), Counters(Undef, Num(2)), R2)}

\* a ChatMessage (timestamp and editorContext are read by no operation here)
ChatMessage(id, role, content, toolResults) ==
    [id |-> id, role |-> role, content |-> content, toolResults |-> toolResults]

\* a session an earlier run of the plugin left in data.json
StoredSession ==
    [id |-> 1, sessionId |-> Null, title |-> <<"h", "i">>,
     messages |-> <<ChatMessage(<<"u", 0>>, "user", <<"h", "i">>, Undef),
                    ChatMessage(<<"a", 0>>, "assistant", <<"b">>, Undef)>>,
     createdAt |-> 0, updatedAt |-> 0, usage |-> UsageFrom([input_tokens |-> Num(1), output_tokens |-> Num(1)])]

InitialDisks == {[sessions |-> <<>>], [sessions |-> <<StoredSession>>]}

Task(kind, pc, op) ==
    [kind |-> kind, pc |-> pc, op |-> op, arg |-> 0, cs |-> Null,
     userMessage |-> Null, newMessages |-> <<>>, finalMessages |-> <<>>,
     rs |-> InitReducer, count |-> 0, pending |-> Null, created |-> Null,
     payload |-> Null]

IdsOf(list) == [i \in 1..Len(list) |-> list[i].id]

Remove(list, i) == SubSeq(list, 1, i - 1) \o SubSeq(list, i + 1, Len(list))

\* what the code between two awaits reads and writes
World == [ui |-> ui, sessions |-> sessions, heap |-> heap, nextId |-> nextId]

\* the call returns; a turn leaves through  finally { setIsLoading(false) }
Finish(w, t) ==
    [w |-> IF t.kind = "turn" THEN [w EXCEPT !.ui.isLoading = FALSE] ELSE w,
     t |-> [t EXCEPT !.pc = "done"]]

\* selectSession, the store being loaded
selectSession(w, sessionId) ==
    LET session == MapGet(w.sessions, sessionId)
    IN IF session # Null
       THEN [w EXCEPT !.ui.currentSession = session,
                      !.ui.messages = session.messages,
                      !.ui.error = Null,
                      !.ui.streamingContent = <<>>]
       ELSE w

\* SessionManager.createNewSession up to its await in persistSessions
storeCreateNewSession(w, t, time) ==
    LET session == NewSession(w.nextId, time)
    IN [w |-> [w EXCEPT !.sessions = MapSet(@, session),
                        !.heap = [r \in DOMAIN @ \cup {session.usage} |->
                                    IF r = session.usage THEN DEFAULT_USAGE ELSE @[r]],
                        !.nextId = @ + 1],
        t |-> [t EXCEPT !.pc = "read", !.op = "create", !.created = session]]

\* loadSessions, were it to list what persistSessions keeps
loadSessionsPersisted(w, t, time) ==
    LET loadedSessions == Slice(getAllSessions(w.sessions), settings.maxSessionHistory)
        w1 == [w EXCEPT !.ui.sessions = IdsOf(loadedSessions)]
    IN IF Len(loadedSessions) > 0
       THEN Finish(selectSession(w1, loadedSessions[1].id), t)
       ELSE storeCreateNewSession(w1, t, time)

\* loadSessions from the return of getAllSessions on
loadSessions(w, t, time) ==
    LET loadedSessions == getAllSessions(w.sessions)
        w1 == [w EXCEPT !.ui.sessions = IdsOf(loadedSessions)]
    IN IF Len(loadedSessions) > 0
       THEN Finish(selectSession(w1, loadedSessions[1].id), t)
       ELSE storeCreateNewSession(w1, t, time)

\* createNewSession from the return of the store's createNewSession on
createNewSession(w, t, time) ==
    loadSessions([w EXCEPT !.ui.currentSession = t.created,
                                !.ui.messages = <<>>,
                                !.ui.error = Null,
                                !.ui.streamingContent = <<>>], t, time)

\* deleteSession from the return of the store's deleteSession on
deleteSession(w, t, time) ==
    LET remainingSessions == getAllSessions(w.sessions)
        w1 == [w EXCEPT !.ui.sessions = IdsOf(remainingSessions)]
    IN IF t.cs # Null /\ t.cs.id = t.arg
       THEN IF Len(remainingSessions) > 0
            THEN Finish(selectSession(w1, remainingSessions[1].id), t)
            ELSE storeCreateNewSession(w1, t, time)
       ELSE Finish(w1, t)

\* sendMessage from the return of updateUsage up to the await in saveSession
saveTurn(w, t, time) ==
    LET session == Saved([t.cs EXCEPT !.messages = t.finalMessages], time)
    IN [w |-> [w EXCEPT !.ui.slashCommands =
                            IF Len(availableCommands) > 0 THEN availableCommands ELSE @,
                        !.sessions = MapSet(@, session)],
        t |-> [t EXCEPT !.pc = "read", !.op = "save"]]

\* sendMessage from the return of agentService.sendMessage up to the next await
completeTurn(w, t, time) ==
    LET response == Response(t.rs, t.cs.id)
        assistantMessage == ChatMessage(<<"a", t.userMessage.id[2]>>, "assistant",
                                        response.content, response.toolResults)
        finalMessages == Append(t.newMessages, assistantMessage)
        w1 == [w EXCEPT !.ui.messages = finalMessages, !.ui.streamingContent = <<>>]
        t1 == [t EXCEPT !.finalMessages = finalMessages]
        session == MapGet(w.sessions, t.cs.id)
    IN IF response.usage # NoUsage /\ session # Null
       THEN [w |-> [w1 EXCEPT !.heap[session.usage] = Accumulated(@, response.usage)],
             t |-> [t1 EXCEPT !.pc = "read", !.op = "usage"]]
       ELSE saveTurn(w1, t1, time)

\* a store operation called on its own, from the return of ensureLoaded up to
\* its await in persistSessions, or to its return when it does not persist
StoreApply(w, t, time) ==
    LET session == MapGet(w.sessions, t.arg)
        persist == [t EXCEPT !.pc = "read"]
        done == [t EXCEPT !.pc = "done"]
    IN CASE t.op = "createNewSession" ->
              [w |-> storeCreateNewSession(w, t, time).w, t |-> persist]
         [] t.op = "saveSession" ->
              [w |-> [w EXCEPT !.sessions = MapSet(@, Saved(t.payload, time))],
               t |-> persist]
         [] t.op = "deleteSession" ->
              [w |-> [w EXCEPT !.sessions = MapDelete(@, t.arg)], t |-> persist]
         [] t.op = "getAllSessions" -> [w |-> w, t |-> done]
         [] t.op = "renameSession" ->
              IF session = Null THEN [w |-> w, t |-> done]
              ELSE [w |-> [w EXCEPT !.sessions =
                              MapSet(@, [session EXCEPT !.title = t.payload,
                                                        !.updatedAt = time])],
                    t |-> persist]
         [] t.op = "addMessage" ->
              IF session = Null THEN [w |-> w, t |-> done]
              ELSE [w |-> [w EXCEPT !.sessions =
                              MapSet(@, [session EXCEPT
                                            !.messages = Append(@, t.payload),
                                            !.updatedAt = time])],
                    t |-> persist]
         [] t.op = "updateSdkSessionId" ->
              IF session = Null THEN [w |-> w, t |-> done]
              ELSE [w |-> [w EXCEPT !.sessions =
                              MapSet(@, [session EXCEPT !.sessionId = t.payload])],
                    t |-> persist]
         [] t.op = "updateUsage" ->
              IF session = Null THEN [w |-> w, t |-> done]
              ELSE [w |-> [w EXCEPT !.heap[session.usage] = Accumulated(@, t.payload)],
                    t |-> persist]

\* the code that follows the store operation whose saveData settled
AfterWrite(w, t, time) ==
    IF t.kind \in {"call", "settings"} THEN Finish(w, t)
    ELSE CASE t.op = "create" -> createNewSession(w, t, time)
           [] t.op = "delete" -> deleteSession(w, t, time)
           [] t.op = "usage" -> saveTurn(w, t, time)
           [] t.op = "save" -> loadSessions(w, t, time)

\* the code that follows ensureLoaded
AfterLoad(w, t, time) ==
    IF t.kind = "call" THEN StoreApply(w, t, time)
    ELSE CASE t.op = "getAll" -> loadSessions(w, t, time)
           [] t.op = "create" -> storeCreateNewSession(w, t, time)

\* the state after the code between two awaits of task i ran
Commit(i, r) ==
    \E x \in {r} :
        /\ ui' = x.w.ui
        /\ sessions' = x.w.sessions
        /\ heap' = x.w.heap
        /\ nextId' = x.w.nextId
        /\ tasks' = IF x.t.pc = "done" THEN Remove(tasks, i)
                    ELSE [tasks EXCEPT ![i] = x.t]

AcceptsWhileLoading(content, closure) ==
    Trim(content) # <<>> /\ closure.currentSession # Null

AcceptsBlank(content, closure) ==
    ~closure.isLoading /\ closure.currentSession # Null

\* sendMessage goes past its first line
Accepts(content, closure) ==
    ~(Trim(content) = <<>> \/ closure.isLoading \/ closure.currentSession = Null)

TurnTask(cs, userMessage, newMessages) ==
    [Task("turn", "stream", "query") EXCEPT
        !.cs = cs, !.userMessage = userMessage, !.newMessages = newMessages]

ErrorMessageGeneric(err) == Str("An error occurred")

\* err instanceof Error ? err.message : 'An error occurred'
ErrorMessage(err) ==
    IF "message" \in DOMAIN err THEN Str(err.message) ELSE Str("An error occurred")

Event(kind, content) ==
    /\ ops < MaxOps
    /\ ops' = ops + 1
    /\ lastOp' = [kind |-> kind, content |-> content]

\* the chat input calls sendMessage(content); the state it sets in the event
\* handler is rendered before the next event
Send(content) ==
    /\ Event("send", content)
    /\ IF Accepts(content, rendered)
       THEN LET userMessage == ChatMessage(<<"u", ops + 1>>, "user", content, Undef)
                newMessages == Append(rendered.messages, userMessage)
            IN /\ ui' = [ui EXCEPT !.error = Null,
                                   !.isLoading = TRUE,
                                   !.streamingContent = <<>>,
                                   !.messages = newMessages]
               /\ rendered' = Snapshot(ui')
               /\ tasks' = Append(tasks, TurnTask(rendered.currentSession,
                                                  userMessage, newMessages))
               /\ requests' = requests + 1
       ELSE UNCHANGED <<ui, rendered, tasks, requests>>
    /\ UNCHANGED <<settings, reducerVars, availableCommands, sessions, loaded, heap, disk,
                   now, nextId, loads>>

\* the transport yields msg to the turn and the reducer's loop body runs on it
TurnDeliver(i, msg) ==
    /\ tasks[i].pc = "stream"
    /\ tasks[i].count < MaxTurnStream
    /\ LET rs == Reduce(tasks[i].rs, msg, TRUE)
       IN /\ tasks' = [tasks EXCEPT ![i].rs = rs, ![i].count = @ + 1]
          /\ ui' = IF rs.called THEN [ui EXCEPT !.streamingContent = rs.partial] ELSE ui
    /\ availableCommands' = StepCommands(availableCommands, msg)
    /\ UNCHANGED <<settings, reducerVars, rendered, sessions, loaded, heap, disk, now,
                   nextId, loads, ops, lastOp, requests>>

\* the stream of the turn is exhausted
TurnEnd(i) ==
    /\ tasks[i].pc = "stream"
    /\ Commit(i, completeTurn(World, tasks[i], now))
    /\ UNCHANGED <<settings, reducerVars, availableCommands, rendered, loaded, disk, now,
                   loads, ops, lastOp, requests>>

\* the transport raises: catch, then finally
TurnThrows(i, error) ==
    /\ tasks[i].pc = "stream"
    /\ ui' = [ui EXCEPT !.error = ErrorMessage(Caught(error).error),
                        !.streamingContent = <<>>,
                        !.isLoading = FALSE]
    /\ tasks' = Remove(tasks, i)
    /\ UNCHANGED <<settings, reducerVars, availableCommands, rendered, sessions, loaded,
                   heap, disk, now, nextId, loads, ops, lastOp, requests>>

\* the user picks a session in the selector (a listed session: the store is loaded)
Select(sessionId) ==
    /\ Event("select", <<>>)
    /\ ui' = selectSession(World, sessionId).ui
    /\ UNCHANGED <<settings, reducerVars, availableCommands, rendered, sessions, loaded,
                   heap, disk, tasks, now, nextId, loads, requests>>

\* the user clicks New Session: the store's createNewSession starts
Create ==
    /\ Event("create", <<>>)
    /\ LET r == IF loaded
                THEN storeCreateNewSession(World, Task("create", "read", "create"), now)
                ELSE [w |-> World, t |-> Task("create", "load", "create")]
       IN /\ sessions' = r.w.sessions
          /\ heap' = r.w.heap
          /\ nextId' = r.w.nextId
          /\ tasks' = Append(tasks, r.t)
    /\ UNCHANGED <<settings, reducerVars, availableCommands, ui, rendered, loaded, disk,
                   now, loads, requests>>

\* the user confirms the deletion of a listed session
Delete(sessionId) ==
    /\ Event("delete", <<sessionId>>)
    /\ sessions' = MapDelete(sessions, sessionId)
    /\ tasks' = Append(tasks, [Task("delete", "read", "delete") EXCEPT
                                  !.arg = sessionId, !.cs = rendered.currentSession])
    /\ UNCHANGED <<settings, reducerVars, availableCommands, ui, rendered, loaded, heap,
                   disk, now, nextId, loads, requests>>

\* loadData settles inside ensureLoaded: loadAllSessions, then the caller goes on
LoadResolves(i) ==
    /\ tasks[i].pc = "load"
    /\ LET sessionsData == disk.sessions
           w == [World EXCEPT
                    !.sessions = Populate(<<>>, Parsed(sessionsData, loads + 1)),
                    !.heap = ParsedUsage(sessionsData, loads + 1, heap)]
       IN Commit(i, AfterLoad(w, tasks[i], now))
    /\ loaded' = TRUE
    /\ loads' = loads + 1
    /\ UNCHANGED <<settings, reducerVars, availableCommands, rendered, disk, now, ops,
                   lastOp, requests>>

\* loadData settles inside persistSessions: the array is built and saveData called
ReadResolves(i) ==
    /\ tasks[i].pc = "read"
    /\ tasks' = [tasks EXCEPT
                    ![i].pc = "write",
                    ![i].pending =
                        [disk EXCEPT !.sessions =
                            PersistedArray(sessions, heap, settings.maxSessionHistory)]]
    /\ UNCHANGED <<settings, reducerVars, availableCommands, ui, rendered, sessions, loaded,
                   heap, disk, now, nextId, loads, ops, lastOp, requests>>

\* saveData settles: the store operation returns and its caller goes on
WriteResolves(i) ==
    /\ tasks[i].pc = "write"
    /\ disk' = tasks[i].pending
    /\ Commit(i, AfterWrite(World, [tasks[i] EXCEPT !.pending = Null], now))
    /\ UNCHANGED <<settings, reducerVars, availableCommands, rendered, loaded, now, loads,
                   ops, lastOp, requests>>

\* React renders the state set outside event handlers
Render ==
    /\ rendered # Snapshot(ui)
    /\ rendered' = Snapshot(ui)
    /\ UNCHANGED <<settings, reducerVars, availableCommands, ui, sessions, loaded, heap,
                   disk, tasks, now, nextId, loads, ops, lastOp, requests>>

\* the clock advances
Tick ==
    /\ now < MaxTime
    /\ now' = now + 1
    /\ UNCHANGED <<settings, reducerVars, availableCommands, ui, rendered, sessions, loaded,
                   heap, disk, tasks, nextId, loads, ops, lastOp, requests>>

\* the view has mounted: its effect called loadSessions, which awaits the load
Init ==
    /\ onStreamUpdate = TRUE
    /\ stream = <<>>
    /\ locals = InitReducer
    /\ outcome = [kind |-> "pending"]
    /\ thrown = NoError
    /\ availableCommands = DEFAULT_SLASH_COMMANDS
    /\ ui = [InitialUi EXCEPT !.slashCommands = DEFAULT_SLASH_COMMANDS]
    /\ rendered = Snapshot(InitialUi)
    /\ sessions = <<>>
    /\ loaded = FALSE
    /\ heap = NoHeap
    /\ disk \in InitialDisks
    /\ tasks = <<Task("mount", "load", "getAll")>>
    /\ now = 0
    /\ nextId = 2
    /\ loads = 0
    /\ ops = 0
    /\ lastOp = NoOp
    /\ requests = 0
    /\ settings = loadSettings(disk)

Next ==
    \/ \E content \in Contents : Send(content)
    \/ \E i \in 1..Len(tasks), msg \in TurnMessages : TurnDeliver(i, msg)
    \/ \E i \in 1..Len(tasks) : TurnEnd(i)
    \/ \E i \in 1..Len(tasks), error \in TransportErrors : TurnThrows(i, error)
    \/ \E k \in 1..Len(rendered.sessions) : Select(rendered.sessions[k])
    \/ Create
    \/ \E k \in 1..Len(rendered.sessions) : Delete(rendered.sessions[k])
    \/ \E i \in 1..Len(tasks) : LoadResolves(i)
    \/ \E i \in 1..Len(tasks) : ReadResolves(i)
    \/ \E i \in 1..Len(tasks) : WriteResolves(i)
    \/ Render
    \/ Tick

Spec == Init /\ [][Next]_vars

(***************************************************************************)
(* What a stream says, read off the messages themselves                    *)
(***************************************************************************)
IsTextDelta(m) ==
    /\ m.type = "stream_event"
    /\ m.event.type = "content_block_delta"
    /\ m.event.delta.type = "text_delta"

\* the texts of the text-delta events of s, concatenated in arrival order
DeltaTexts(s) ==
    Concat([i \in 1..Len(s) |-> IF IsTextDelta(s[i]) THEN s[i].event.delta.text.v ELSE <<>>])

\* the tool-use blocks message m announces
AnnouncedBy(m) ==
    IF m.type = "assistant"
    THEN SelectSeq(m.message.content, LAMBDA b : b.type = "tool_use")
    ELSE <<>>

\* the tool-result events message m carries: itself, or its tool_result blocks
ResultsIn(m) ==
    IF m.type \in {"tool_result", "tool_progress"} THEN <<m>>
    ELSE IF m.type = "user" /\ m.message.content.kind = "array"
    THEN SelectSeq(m.message.content.v, LAMBDA b : b.type = "tool_result")
    ELSE <<>>

\* the announcements of a stream, in arrival order
Announcements(s) == Concat([i \in 1..Len(s) |-> AnnouncedBy(s[i])])

\* how many times id is announced in s
TimesAnnounced(s, id) ==
    Cardinality({k \in 1..Len(Announcements(s)) : Announcements(s)[k].id = id})

\* the result events for id in s, in arrival order
ResultsFor(s, id) ==
    SelectSeq(Concat([i \in 1..Len(s) |-> ResultsIn(s[i])]),
              LAMBDA r : r.tool_use_id = id)

\* the first message of s that announces id (0 if none)
FirstAnnounced(s, id) ==
    LET at == {i \in 1..Len(s) : \E k \in 1..Len(AnnouncedBy(s[i])) :
                                    AnnouncedBy(s[i])[k].id = id}
    IN IF at = {} THEN 0 ELSE CHOOSE i \in at : \A j \in at : i <= j

\* the plain text a result event carries: its output field, or its string or
\* block-array content flattened to the text blocks
PayloadText(r) ==
    IF "output" \in DOMAIN r
    THEN (IF r.output.kind = "string" /\ r.output.v # <<>> THEN r.output.v
          ELSE IF r.output.kind = "object" THEN JsonStringify(r.output.v)
          ELSE IF r.content.kind = "string" THEN r.content.v
          ELSE IF r.content.kind = "array" THEN JoinText(r.content.v)
          ELSE <<>>)
    ELSE (IF r.content.kind = "string" THEN r.content.v
          ELSE IF r.content.kind = "array" THEN JoinText(r.content.v)
          ELSE <<>>)

\* the error flag a result event carries
PayloadError(r) == r.is_error.kind = "boolean" /\ r.is_error.v

Ids == {"X", "Y", "Z"}

Returned == outcome.kind = "returned"

\* the invocation with this id in the returned result (the id is announced once)
Invocation(id) ==
    LET list == outcome.response.toolResults.v
    IN list[CHOOSE k \in 1..Len(list) : list[k].id = id]

(***************************************************************************)
(* C1: a stream of text deltas only returns their concatenation, whether   *)
(* or not the caller passed the stream-update callback.                    *)
(***************************************************************************)
C1_DeltasConcatenated ==
    (Returned /\ \A i \in 1..Len(stream) : IsTextDelta(stream[i]))
        => outcome.response.content = DeltaTexts(stream)

(***************************************************************************)
(* C2: an id announced once and answered by one later result event (with   *)
(* any other events before, between and after) ends with that event's      *)
(* output and error flag in its invocation.                                *)
(***************************************************************************)
ResultsAfterAnnouncement(s, id) ==
    ResultsFor(SubSeq(s, FirstAnnounced(s, id) + 1, Len(s)), id)

C2_ResultReachesInvocation ==
    Returned =>
      \A id \in Ids :
        (TimesAnnounced(stream, id) = 1
           /\ Len(ResultsAfterAnnouncement(stream, id)) = 1)
        => LET r == ResultsAfterAnnouncement(stream, id)[1]
           IN /\ Invocation(id).output = PayloadText(r)
              /\ Invocation(id).isError = PayloadError(r)

\* X is announced, another id is announced or answered, then X is answered
C2_Witness ==
    /\ Returned
    /\ Len(stream) = 3
    /\ TimesAnnounced(stream, "X") = 1
    /\ FirstAnnounced(stream, "X") = 1
    /\ Len(ResultsFor(<<stream[2]>>, "X")) = 0
    /\ Len(ResultsFor(<<stream[2]>>, "Y")) + Len(AnnouncedBy(stream[2])) > 0
    /\ Len(ResultsFor(<<stream[3]>>, "X")) = 1
    /\ Invocation("X").output # <<>>
    /\ Invocation("X").isError

(***************************************************************************)
(* C3: a result event whose id matches no invocation announced earlier in  *)
(* the turn leaves the invocation list as it was, and the list always      *)
(* holds one entry per announced tool-use block, in announcement order.    *)
(***************************************************************************)
AnnouncedIds(s) == {Announcements(s)[k].id : k \in 1..Len(Announcements(s))}

\* m carries result events, and none of them has an announced id
IsMiss(m, s) ==
    /\ ResultsIn(m) # <<>>
    /\ \A k \in 1..Len(ResultsIn(m)) : ResultsIn(m)[k].tool_use_id \notin AnnouncedIds(s)

OnePerAnnouncement ==
    /\ Len(locals.toolResults) = Len(Announcements(stream))
    /\ \A k \in 1..Len(locals.toolResults) :
         /\ locals.toolResults[k].id = Announcements(stream)[k].id
         /\ locals.toolResults[k].tool = Announcements(stream)[k].name
         /\ locals.toolResults[k].input = Announcements(stream)[k].input

C3_MissChangesNothing ==
    /\ []OnePerAnnouncement
    /\ [][(Len(stream') = Len(stream) + 1 /\ IsMiss(stream'[Len(stream')], stream))
            => locals'.toolResults = locals.toolResults]_vars

\* a miss arrived while invocations with other ids were in the list
C3_Witness ==
    /\ Len(stream) >= 2
    /\ IsMiss(stream[Len(stream)], SubSeq(stream, 1, Len(stream) - 1))
    /\ locals.toolResults # <<>>

(***************************************************************************)
(* C4: when several result events follow the announcement of an id, the    *)
(* invocation ends with the output and the error flag of the last of them. *)
(***************************************************************************)
C4_LastResultWins ==
    Returned =>
      \A id \in Ids :
        (TimesAnnounced(stream, id) = 1
           /\ Len(ResultsAfterAnnouncement(stream, id)) >= 2)
        => LET rs == ResultsAfterAnnouncement(stream, id)
           IN /\ Invocation(id).output = PayloadText(rs[Len(rs)])
              /\ Invocation(id).isError = PayloadError(rs[Len(rs)])

(***************************************************************************)
(* C5: when the transport raises, the call rejects with that very error    *)
(* and hands no response to the caller.                                    *)
(***************************************************************************)
C5_ErrorPropagates ==
    thrown # NoError => outcome = [kind |-> "rejected", error |-> thrown]

\* the transport raised after text and a tool invocation had accumulated
C5_Witness ==
    /\ thrown # NoError
    /\ locals.responseContent # <<>>
    /\ locals.toolResults # <<>>
    /\ outcome.kind = "rejected"

(***************************************************************************)
(* What the chat view is doing, read off the calls in flight               *)
(***************************************************************************)
Turns == {i \in 1..Len(tasks) : tasks[i].kind = "turn"}

\* a turn was sent and has not yet come back
Sending == Turns # {}

Idle == Turns = {} /\ ~ui.isLoading

SendingOn(id) == \E i \in Turns : tasks[i].cs.id = id

\* this step is a call of sendMessage
SendCalled == ops' = ops + 1 /\ lastOp'.kind = "send"

Has(list, m) == \E k \in 1..Len(list) : list[k] = m

AssistantOf(t) == <<"a", t.userMessage.id[2]>>

\* C6: when the transport throws during a turn, the message list of the
\* session the turn was sent on (the stored list, or the transcript if that
\* session is the one shown) still contains the turn's user message, and no
\* assistant message of the turn.
C6_FailedTurnKeepsUserMessage ==
    [][\A i \in Turns, error \in TransportErrors :
          TurnThrows(i, error) /\ MapGet(sessions, tasks[i].cs.id) # Null =>
             LET t == tasks[i]
                 stored == MapGet(sessions', t.cs.id).messages
                 shown == IF ui'.currentSession # Null /\ ui'.currentSession.id = t.cs.id
                          THEN ui'.messages ELSE <<>>
             IN /\ Has(stored, t.userMessage) \/ Has(shown, t.userMessage)
                /\ \A k \in 1..Len(stored) : stored[k].id # AssistantOf(t)
                /\ \A k \in 1..Len(shown) : shown[k].id # AssistantOf(t)]_vars

OneTurnPerSession ==
    \A i, j \in Turns : tasks[i].cs.id = tasks[j].cs.id => i = j

\* the session a call of sendMessage is for has a turn in flight
TargetIsSending ==
    \E s \in {rendered.currentSession, ui.currentSession} \ {Null} : SendingOn(s.id)

\* C7: no session ever has two turns in flight, and a call of sendMessage
\* made while a turn of the session is in flight appends no message, issues
\* no transport request and starts no turn.
C7_SingleFlight ==
    /\ []OneTurnPerSession
    /\ [][SendCalled /\ TargetIsSending =>
             /\ ui'.messages = ui.messages
             /\ requests' = requests
             /\ tasks' = tasks]_vars

\* a second non-blank send arrived while the turn of the first was in flight
C7_Witness ==
    /\ ops = 2
    /\ lastOp.kind = "send"
    /\ Trim(lastOp.content) # <<>>
    /\ \E i \in Turns : tasks[i].userMessage.id = <<"u", 1>>

\* C8: a call of sendMessage with blank text, or while a turn is being sent,
\* or with no session selected, changes neither the view's state nor the
\* store nor the disk, and issues no transport request.
C8_RejectedSendIsNoOp ==
    [][SendCalled /\ (Trim(lastOp'.content) = <<>> \/ Sending \/ ui.isLoading
                        \/ ui.currentSession = Null) =>
          UNCHANGED <<ui, sessions, loaded, heap, disk, tasks, requests>>]_vars

\* a blank text was sent with a session selected and no turn in flight
C8_Witness ==
    /\ lastOp.kind = "send"
    /\ Trim(lastOp.content) = <<>>
    /\ lastOp.content # <<>>
    /\ rendered.currentSession # Null
    /\ ~rendered.isLoading
    /\ requests = 0
    /\ tasks = <<>>

\* C9: at the step that completes a turn, the view is idle, the streaming
\* slot is empty, and the stored session of the turn holds the messages it
\* had when the turn was sent, then the user message, then one assistant
\* message with the content and toolResults of the response; the disk
\* holds the same list.
C9_SuccessStoresTurn ==
    [][\A i \in Turns :
          WriteResolves(i) /\ Len(tasks') < Len(tasks) =>
             LET t == tasks[i]
                 n == Len(t.cs.messages)
                 response == Response(t.rs, t.cs.id)
                 stored == MapGet(sessions', t.cs.id)
                 persisted == MapGet(disk'.sessions, t.cs.id)
             IN /\ ~ui'.isLoading
                /\ ui'.streamingContent = <<>>
                /\ stored # Null
                /\ Len(stored.messages) = n + 2
                /\ SubSeq(stored.messages, 1, n) = t.cs.messages
                /\ stored.messages[n + 1] = t.userMessage
                /\ stored.messages[n + 2].role = "assistant"
                /\ stored.messages[n + 2].content = response.content
                /\ stored.messages[n + 2].toolResults = response.toolResults
                /\ persisted # Null
                /\ persisted.messages = stored.messages]_vars

\* every transport stream ends or fails, and every loadData and saveData settles
FairSpec ==
    /\ Spec
    /\ WF_vars(\E i \in 1..Len(tasks) :
                  (\E error \in TransportErrors : TurnThrows(i, error)) \/ TurnEnd(i))
    /\ WF_vars(\E i \in 1..Len(tasks) : ReadResolves(i))
    /\ WF_vars(\E i \in 1..Len(tasks) : WriteResolves(i))

\* C10: the step at which a turn fails leaves the loading flag false, the
\* streaming slot empty, the error equal to the message of the error thrown,
\* no turn in flight and no new transport request, so that a send is
\* accepted again; transport requests are only ever issued by a send; and
\* every state with a turn in flight is followed by an idle state.
C10_FailureLeavesIdle ==
    /\ [][\A i \in Turns, error \in TransportErrors :
             TurnThrows(i, error) =>
                /\ ~ui'.isLoading
                /\ ui'.streamingContent = <<>>
                /\ ui'.error = Str(error.message)
                /\ \A j \in 1..Len(tasks') : tasks'[j].kind # "turn"
                /\ requests' = requests
                /\ Accepts(<<"h", "i">>, Snapshot(ui'))]_vars
    /\ [][requests' # requests => SendCalled]_vars
    /\ Sending ~> Idle

\* a turn failed and the view shows the error, idle
C10_Witness ==
    /\ requests = 1
    /\ ~Sending
    /\ ~ui.isLoading
    /\ ui.error \in {Str(error.message) : error \in TransportErrors}

(***************************************************************************)
(* The session store called on its own: a client calls the operations of   *)
(* SessionManager, without waiting for the calls it made before.           *)
(***************************************************************************)
\* Date.now() during these calls
StoreTime == 3

\* a text of n characters
Text(n) == [k \in 1..n |-> "x"]

\* sessions an earlier run of the plugin left in data.json, newest first
OlderSession ==
    [id |-> 1, sessionId |-> Null, title |-> DefaultTitle, messages |-> <<>>,
     createdAt |-> 1, updatedAt |-> 1, usage |-> DEFAULT_USAGE]

NewerSession ==
    [id |-> 2, sessionId |-> Null, title |-> <<"n", "o", "t", "e", "s">>,
     messages |-> <<ChatMessage(<<"u", 0>>, "user", <<"h", "i">>, Undef),
                    ChatMessage(<<"a", 0>>, "assistant", <<"b">>, Undef)>>,
     createdAt |-> 2, updatedAt |-> 2,
     usage |-> UsageFrom([input_tokens |-> Num(0), output_tokens |-> Num(1)])]

StoreDisks == {[sessions |-> <<>>], [sessions |-> <<NewerSession, OlderSession>>]}

\* the per-turn usage records a client merges
Deltas ==
    {UsageFrom([input_tokens |-> Num(0), output_tokens |-> Num(1)]),
     UsageFrom([input_tokens |-> Num(3), output_tokens |-> Num(3)])}

\* the message lists a client saves a session with
SavedLists ==
    {<<>>,
     <<ChatMessage(<<"a", 1>>, "assistant", <<"b">>, Undef)>>,
     <<ChatMessage(<<"u", 1>>, "user", Text(TitleLength), Undef)>>,
     <<ChatMessage(<<"a", 1>>, "assistant", <<"b">>, Undef),
       ChatMessage(<<"u", 1>>, "user", Text(TitleLength + 1), Undef),
       ChatMessage(<<"u", 2>>, "user", <<"h", "i">>, Undef)>>}

\* the ids a client passes: those the store has issued, and one it never issued
CallIds == 0..(nextId - 1)

\* a call of a store operation: ensureLoaded awaits the load, or returns at
\* once and the operation runs up to its next await
StoreCall(op, id, payload) ==
    /\ Event(op, <<>>)
    /\ LET t == [Task("call", "load", op) EXCEPT !.arg = id, !.payload = payload]
           r == IF loaded THEN StoreApply(World, t, now) ELSE [w |-> World, t |-> t]
       IN /\ sessions' = r.w.sessions
          /\ heap' = r.w.heap
          /\ nextId' = r.w.nextId
          /\ tasks' = IF r.t.pc = "done" THEN tasks ELSE Append(tasks, r.t)
    /\ UNCHANGED <<settings, reducerVars, availableCommands, ui, rendered, loaded, disk,
                   now, loads, requests>>

CallCreateNewSession == StoreCall("createNewSession", 0, Null)

CallSaveSession(session) == StoreCall("saveSession", session.id, session)

CallDeleteSession(id) == StoreCall("deleteSession", id, Null)

CallGetAllSessions == StoreCall("getAllSessions", 0, Null)

CallRenameSession(id, newTitle) == StoreCall("renameSession", id, newTitle)

CallAddMessage(sessionId, message) == StoreCall("addMessage", sessionId, message)

CallUpdateSdkSessionId(localId, sdkSessionId) ==
    StoreCall("updateSdkSessionId", localId, sdkSessionId)

CallUpdateUsage(sessionId, usage) == StoreCall("updateUsage", sessionId, usage)

\* the plugin has loaded; no store operation was called yet
StoreInit ==
    /\ onStreamUpdate = TRUE
    /\ stream = <<>>
    /\ locals = InitReducer
    /\ outcome = [kind |-> "pending"]
    /\ thrown = NoError
    /\ availableCommands = DEFAULT_SLASH_COMMANDS
    /\ ui = InitialUi
    /\ rendered = Snapshot(InitialUi)
    /\ sessions = <<>>
    /\ loaded = FALSE
    /\ heap = NoHeap
    /\ disk \in StoreDisks
    /\ tasks = <<>>
    /\ now = StoreTime
    /\ nextId = 3
    /\ loads = 0
    /\ ops = 0
    /\ lastOp = NoOp
    /\ requests = 0
    /\ settings = loadSettings(disk)

StoreNext ==
    \/ CallCreateNewSession
    \/ \E k \in 1..Len(sessions), messages \in SavedLists :
          CallSaveSession([sessions[k] EXCEPT !.messages = messages])
    \/ \E id \in CallIds : CallDeleteSession(id)
    \/ CallGetAllSessions
    \/ \E id \in CallIds : CallRenameSession(id, <<"m", "y">>)
    \/ \E id \in CallIds :
          CallAddMessage(id, ChatMessage(<<"u", 9>>, "user", <<"h", "i">>, Undef))
    \/ \E id \in CallIds : CallUpdateSdkSessionId(id, R1)
    \/ \E id \in CallIds, usage \in Deltas : CallUpdateUsage(id, usage)
    \/ \E i \in 1..Len(tasks) : LoadResolves(i)
    \/ \E i \in 1..Len(tasks) : ReadResolves(i)
    \/ \E i \in 1..Len(tasks) : WriteResolves(i)

StoreSpec == StoreInit /\ [][StoreNext]_vars

(***************************************************************************)
(* Usage accounting of the stored sessions                                 *)
(***************************************************************************)
\* the ids of the sessions in a map
StoredIds(m) == {m[k].id : k \in 1..Len(m)}

\* the usage of the stored session id
UsageOf(m, h, id) == h[MapGet(m, id).usage]

\* response.usage of the turn t
TurnUsage(t) == Response(t.rs, t.cs.id).usage

NotLower(before, after) ==
    /\ after.inputTokens >= before.inputTokens
    /\ after.outputTokens >= before.outputTokens
    /\ after.totalTokens >= before.totalTokens
    /\ FloatLeq(before.estimatedCost, after.estimatedCost)

\* this step merges the usage of a turn of session id: updateUsage found it
MergesInto(id) ==
    \E i \in Turns :
        /\ tasks[i].cs.id = id
        /\ tasks[i].pc = "stream"
        /\ TurnEnd(i)
        /\ TurnUsage(tasks[i]) # NoUsage

\* C11: a session the store creates starts with zero usage; at every step
\* that keeps a session stored, its usage either stays what it was or, when
\* the step merges a turn's usage into it, becomes the field-wise sum of what
\* it was and that turn's usage; so the usage of a stored session is the sum
\* of the usage records merged into it, and none of its four fields is ever
\* lowered.
C11_UsageIsSumOfMerged ==
    [][\A id \in StoredIds(sessions') :
          IF id \in StoredIds(sessions)
          THEN LET before == UsageOf(sessions, heap, id)
                   after == UsageOf(sessions', heap', id)
               IN /\ NotLower(before, after)
                  /\ \/ after = before /\ ~MergesInto(id)
                     \/ /\ MergesInto(id)
                        /\ \E i \in Turns :
                              /\ tasks[i].cs.id = id
                              /\ after = Accumulated(before, TurnUsage(tasks[i]))
          ELSE id = nextId => UsageOf(sessions', heap', id) = DEFAULT_USAGE]_vars

\* the stream of turn i ends at this step with a usage record in the response
EndsWithUsage(i) ==
    /\ tasks[i].pc = "stream"
    /\ TurnEnd(i)
    /\ TurnUsage(tasks[i]) # NoUsage

\* C12: at the step that ends the stream of a turn whose response carries a
\* usage record, the session of the turn is stored and its usage becomes what
\* it was plus that record (merged, once); and no later step of the same turn
\* (the writes of updateUsage and saveSession) changes the stored usage of
\* that session again.
C12_TurnUsageMergedOnce ==
    [][\A i \in Turns :
          LET id == tasks[i].cs.id
          IN /\ EndsWithUsage(i) =>
                   /\ id \in StoredIds(sessions)
                   /\ id \in StoredIds(sessions')
                   /\ UsageOf(sessions', heap', id) =
                         Accumulated(UsageOf(sessions, heap, id), TurnUsage(tasks[i]))
             /\ /\ tasks[i].pc # "stream"
                /\ ReadResolves(i) \/ WriteResolves(i)
                /\ id \in StoredIds(sessions)
                /\ id \in StoredIds(sessions')
                => UsageOf(sessions', heap', id) = UsageOf(sessions, heap, id)]_vars

\* C13: every step that changes a usage object adds one usage record to it
\* field by field, and the order of two merges does not matter: merging any
\* record y after the record x just merged gives the usage that merging y
\* first and x second would have given.
C13_MergeOrderIrrelevant ==
    [][\A r \in DOMAIN heap :
          heap'[r] # heap[r] =>
             \E x \in Deltas :
                /\ heap'[r] = Accumulated(heap[r], x)
                /\ heap'[r].inputTokens = heap[r].inputTokens + x.inputTokens
                /\ heap'[r].outputTokens = heap[r].outputTokens + x.outputTokens
                /\ heap'[r].totalTokens = heap[r].totalTokens + x.totalTokens
                /\ \A y \in Deltas :
                      Accumulated(heap'[r], y) =
                         Accumulated(Accumulated(heap[r], y), x)]_vars

(***************************************************************************)
(* The cost of a turn                                                      *)
(***************************************************************************)
\* the usage the reducer holds counts inputTokens and outputTokens
Counted(inputTokens, outputTokens) ==
    /\ locals.usage # NoUsage
    /\ locals.usage.inputTokens = inputTokens
    /\ locals.usage.outputTokens = outputTokens

\* inputTokens / 1e6 * 3.00 + outputTokens / 1e6 * 15.00 for the token counts
\* considered, as triples <<inputTokens, outputTokens, cost>>
PricedAtThreeAndFifteen ==
    {<<i, o, FloatAdd(FloatTimes(FloatDivide(i, 1000000), 3),
                      FloatTimes(FloatDivide(o, 1000000), 15))>> :
        i \in TokenCounts, o \in TokenCounts}

ThreeDollars == FloatOf(3)

FifteenDollars == FloatOf(15)

\* C14: the estimated cost of the usage the reducer holds is
\* inputTokens / 1e6 * 3.00 + outputTokens / 1e6 * 15.00; it is 3.00 for
\* 1,000,000 input and no output tokens, 15.00 for no input and 1,000,000
\* output tokens, zero for no tokens, and never below zero.
C14_CostOfTokens ==
    locals.usage # NoUsage =>
        LET u == locals.usage
        IN /\ u.inputTokens >= 0 /\ u.outputTokens >= 0
           /\ <<u.inputTokens, u.outputTokens, u.estimatedCost>> \in PricedAtThreeAndFifteen
           /\ Counted(1000000, 0) => u.estimatedCost = ThreeDollars
           /\ Counted(0, 1000000) => u.estimatedCost = FifteenDollars
           /\ Counted(0, 0) => u.estimatedCost = FloatZero
           /\ FloatLeq(FloatZero, u.estimatedCost)

\* a message with 1,000,000 input tokens was reduced, then one with
\* 1,000,000 output tokens: the usage held costs 15.00
C14_Witness ==
    /\ Counted(0, 1000000)
    /\ locals.usage.estimatedCost = FifteenDollars
    /\ \E k \in 1..Len(stream) :
          /\ stream[k].type = "assistant"
          /\ stream[k].message.usage = Counters(Num(1000000), Undef)

(***************************************************************************)
(* The store and what it persisted                                         *)
(***************************************************************************)
\* no call of the store is in flight: whatever was to be persisted has been
Quiet == loaded /\ tasks = <<>>

Descending(list) ==
    \A k \in 1..(Len(list) - 1) : list[k].updatedAt >= list[k + 1].updatedAt

\* C15: once the store has persisted, getAllSessions returns at most
\* maxSessionHistory sessions, in descending order of updatedAt, and the
\* store holds no session beyond them.
C15_ListIsCapped ==
    Quiet =>
        /\ Len(getAllSessions(sessions)) <= MaxSessionHistory
        /\ Descending(getAllSessions(sessions))
        /\ Len(sessions) <= MaxSessionHistory

\* C16: whenever no store operation is in flight, the persisted list is the
\* in-memory sessions sorted by updatedAt descending and cut to the first
\* maxSessionHistory entries, so it never has more entries than that.
C16_PersistedMirrorsMemory ==
    Quiet =>
        /\ disk.sessions = PersistedArray(sessions, heap, settings.maxSessionHistory)
        /\ Len(disk.sessions) <= MaxSessionHistory

(***************************************************************************)
(* Loading the store                                                       *)
(***************************************************************************)
\* C17: the backing store is loaded once: when a load has completed, no step
\* loads again, so no load clears the cache of what the store operations
\* have put in it (loads counts the completions of loadAllSessions).
C17_LoadedOnce == [][loaded => loads' = loads]_vars

(***************************************************************************)
(* Deleting a session                                                      *)
(***************************************************************************)
\* the last event was the deletion of id, and the store's deleteSession(id)
\* has returned
DeleteReturned(id) ==
    /\ lastOp.kind = "delete"
    /\ lastOp.content = <<id>>
    /\ \A i \in 1..Len(tasks) :
           ~(tasks[i].kind = "delete" /\ tasks[i].op = "delete" /\ tasks[i].arg = id)

\* neither loadSession(id), nor getAllSessions(), nor the persisted list has id
Absent(id) ==
    /\ MapGet(sessions, id) = Null
    /\ \A k \in 1..Len(getAllSessions(sessions)) : getAllSessions(sessions)[k].id # id
    /\ \A k \in 1..Len(disk.sessions) : disk.sessions[k].id # id

SessionIds == 1..(MaxOps + 2)

\* C18: once deleteSession(id) has returned, the session is absent from the
\* store, from the list and from the persisted list, and it stays absent
\* whatever completes next (until the next event of the user), also when a
\* turn that was in flight on it completes.
C18_DeletedStaysAbsent ==
    \A id \in SessionIds : DeleteReturned(id) => Absent(id)

(***************************************************************************)
(* The message list of a stored session                                    *)
(***************************************************************************)
StartsWith(list, prefix) ==
    Len(prefix) <= Len(list) /\ SubSeq(list, 1, Len(prefix)) = prefix

\* C19: the message list of a stored session only grows at its end: every
\* step that keeps the session in the store leaves the messages it had, in
\* their order and unchanged, at the start of its list.
C19_MessagesAppendOnly ==
    [][\A id \in StoredIds(sessions) \cap StoredIds(sessions') :
          StartsWith(MapGet(sessions', id).messages, MapGet(sessions, id).messages)]_vars

(***************************************************************************)
(* The title of a saved session                                            *)
(***************************************************************************)
\* the title the session passed to saveSession is to have in the store
TitleAfterSave(session) ==
    LET users == {k \in 1..Len(session.messages) : session.messages[k].role = "user"}
        first == CHOOSE k \in users : \A j \in users : k <= j
        content == session.messages[first].content
    IN IF session.title = DefaultTitle /\ users # {}
       THEN IF Len(content) > TitleLength
            THEN SubSeq(content, 1, TitleLength) \o <<"...">>
            ELSE content
       ELSE session.title

\* C20: saveSession gives a session still titled "New Conversation" that has
\* a user message the first 50 characters of its first user message, followed
\* by "..." exactly when the message is longer; a session with another title
\* keeps it.
C20_TitleOnSave ==
    [][\A i \in 1..Len(tasks') :
          (/\ Len(tasks') >= Len(tasks)
           /\ tasks'[i].kind = "call"
           /\ tasks'[i].op = "saveSession"
           /\ tasks'[i].pc = "read"
           /\ (i > Len(tasks) \/ tasks[i].pc = "load"))
          => MapGet(sessions', tasks'[i].payload.id).title
                 = TitleAfterSave(tasks'[i].payload)]_vars

\* a title cut at 50 characters with the ellipsis is in the store
C20_Witness ==
    \E k \in 1..Len(sessions) :
        /\ sessions[k].title = Text(TitleLength) \o <<"...">>
        /\ FirstUserMsg(sessions[k].messages) # Null
        /\ FirstUserMsg(sessions[k].messages).content = Text(TitleLength + 1)

\* a message of exactly 50 characters is the title as it stands
C20_WitnessWhole ==
    \E k \in 1..Len(sessions) :
        /\ sessions[k].title = Text(TitleLength)
        /\ FirstUserMsg(sessions[k].messages) # Null
        /\ FirstUserMsg(sessions[k].messages).content = Text(TitleLength)

\* a session with a title of its own was saved with a long first user message
C20_WitnessKept ==
    \E k \in 1..Len(sessions) :
        /\ sessions[k].title = <<"n", "o", "t", "e", "s">>
        /\ FirstUserMsg(sessions[k].messages) # Null
        /\ FirstUserMsg(sessions[k].messages).content = Text(TitleLength + 1)

(***************************************************************************)
(* The remote session identifier                                           *)
(***************************************************************************)
\* C21: when a turn has succeeded and its session has been saved, the stored
\* session's sessionId is no longer null and is the identifier the reducer
\* returned for the turn.
C21_RemoteIdStored ==
    \A i \in 1..Len(tasks) :
        (/\ tasks[i].kind = "turn"
         /\ tasks[i].op = "save"
         /\ MapGet(sessions, tasks[i].cs.id) # Null)
        => /\ MapGet(sessions, tasks[i].cs.id).sessionId # Null
           /\ MapGet(sessions, tasks[i].cs.id).sessionId
                  = Response(tasks[i].rs, tasks[i].cs.id).sessionId

\* the session id of the last message the transport yielded
LastSessionId == stream[Len(stream)].session_id

\* C22 as stated: the returned identifier is the one the last message
\* carried, and the local session id is returned only when no message of the
\* stream supplied an identifier.
C22_LocalOnlyWhenNoneSupplied ==
    outcome.kind = "returned" =>
        /\ (stream # <<>> /\ LastSessionId # <<>>)
               => outcome.response.sessionId = LastSessionId
        /\ outcome.response.sessionId = LocalSessionId
               => \A k \in 1..Len(stream) : stream[k].session_id = <<>>

\* C22: every message overwrites the identifier the messages before it set;
\* the returned identifier is the one the last message carried, and the
\* local session id exactly when the stream is empty or its last message
\* carried none, whatever the earlier messages supplied.
C22_LastMessageWins ==
    /\ stream # <<>> => locals.sdkSessionId = LastSessionId
    /\ outcome.kind = "returned" =>
           outcome.response.sessionId =
               IF stream = <<>> \/ LastSessionId = <<>>
               THEN LocalSessionId ELSE LastSessionId

\* a returned turn whose last message carried another identifier than its first
C22_Witness ==
    /\ outcome.kind = "returned"
    /\ Len(stream) >= 2
    /\ stream[1].session_id = R1
    /\ LastSessionId = R2
    /\ outcome.response.sessionId = R2

\* a returned turn whose first message carried an identifier and whose last
\* carried none
C22_WitnessFallback ==
    /\ outcome.kind = "returned"
    /\ Len(stream) >= 2
    /\ stream[1].session_id = R1
    /\ LastSessionId = <<>>
    /\ outcome.response.sessionId = LocalSessionId

(***************************************************************************)
(* The text of a turn                                                      *)
(***************************************************************************)
IsInit(msg) == msg.type = "system" /\ msg.subtype = "init"

\* msg carries text for responseContent: a text delta, an assistant text, a
\* compact boundary or a system text, a local command output, a result payload
TextBearing(msg) ==
    \/ /\ msg.type = "stream_event"
       /\ msg.event.type = "content_block_delta"
       /\ msg.event.delta.type = "text_delta"
       /\ Truthy(msg.event.delta.text)
    \/ msg.type = "assistant" /\ JoinText(msg.message.content) # <<>>
    \/ /\ msg.type = "system"
       /\ \/ msg.subtype = "compact_boundary"
          \/ Truthy(msg.message)
          \/ Truthy(msg.content)
    \/ /\ msg.type = "user"
       /\ msg.message.content.kind = "string"
       /\ Truthy(StdoutMatch(msg.message.content.v))
    \/ msg.type = "result" /\ Truthy(msg.result)

AnnouncesTool(msg) ==
    /\ msg.type = "assistant"
    /\ \E k \in 1..Len(msg.message.content) : msg.message.content[k].type = "tool_use"

\* the stream began with an init message and no later message carried text
OnlyInitText ==
    /\ stream # <<>>
    /\ IsInit(stream[1])
    /\ \A k \in 2..Len(stream) : ~TextBearing(stream[k])

\* the step delivers an init message
InitArrives == Len(stream') = Len(stream) + 1 /\ IsInit(stream'[Len(stream')])

\* the placeholder appears only over an empty text
PlaceholderOnlyWhenEmpty ==
    InitArrives =>
        locals'.responseContent =
            IF locals.responseContent = <<>> THEN ClearedText
            ELSE locals.responseContent

\* C23 as stated: a turn that starts with an init message and delivers no
\* other text-bearing message returns the cleared-conversation text and no
\* tool invocation; the placeholder is set only over an empty text.
C23_ClearedAndNoTools ==
    [][/\ PlaceholderOnlyWhenEmpty
       /\ (outcome'.kind = "returned" /\ OnlyInitText)
              => /\ outcome'.response.content = ClearedText
                 /\ outcome'.response.toolResults = Undef]_vars

\* C23: a turn that starts with an init message and delivers no other
\* text-bearing message returns the cleared-conversation text, and no tool
\* invocation when no assistant message announced a tool; the placeholder
\* is set only over an empty text.
C23_Cleared ==
    [][/\ PlaceholderOnlyWhenEmpty
       /\ (outcome'.kind = "returned" /\ OnlyInitText)
              => /\ outcome'.response.content = ClearedText
                 /\ (\A k \in 1..Len(stream) : ~AnnouncesTool(stream[k]))
                        => outcome'.response.toolResults = Undef]_vars

\* a turn of an init message and messages without text returned
C23_Witness ==
    /\ outcome.kind = "returned"
    /\ OnlyInitText
    /\ Len(stream) >= 2
    /\ \A k \in 1..Len(stream) : ~AnnouncesTool(stream[k])
    /\ outcome.response.content = ClearedText
    /\ outcome.response.toolResults = Undef

\* an init message arrived over a text and left it
C23_WitnessKeptText ==
    /\ Len(stream) >= 2
    /\ IsInit(stream[Len(stream)])
    /\ locals.responseContent # <<>>
    /\ locals.responseContent # ClearedText

\* msg is a replacing event: an assistant text, a local command output, a
\* compact boundary summary or a non-empty result payload
Replacing(msg) ==
    \/ msg.type = "assistant" /\ JoinText(msg.message.content) # <<>>
    \/ /\ msg.type = "user"
       /\ msg.message.content.kind = "string"
       /\ Truthy(StdoutMatch(msg.message.content.v))
    \/ msg.type = "system" /\ msg.subtype = "compact_boundary"
    \/ msg.type = "result" /\ Truthy(msg.result)

\* the text a replacing event carries
ReplacingText(msg) ==
    CASE msg.type = "assistant" -> JoinText(msg.message.content)
      [] msg.type = "user" -> Trim(StdoutMatch(msg.message.content.v).v[2])
      [] msg.type = "system" ->
            CompactText(IF Truthy(msg.compact_metadata) THEN msg.compact_metadata.v
                        ELSE [pre_tokens |-> Undef, trigger |-> Undef])
      [] msg.type = "result" ->
            IF msg.result.kind = "string" THEN msg.result.v
            ELSE JsonStringify(msg.result.v)

\* the text of the last replacing event of the messages, followed by the
\* text deltas that arrived after it
FoldedText(messages) ==
    LET replacing == {k \in 1..Len(messages) : Replacing(messages[k])}
        last == IF replacing = {} THEN 0
                ELSE CHOOSE k \in replacing : \A j \in replacing : j <= k
        after == SubSeq(messages, last + 1, Len(messages))
    IN (IF last = 0 THEN <<>> ELSE ReplacingText(messages[last])) \o DeltaTexts(after)

\* C24: responseText is the fold of the stream in arrival order: the text of
\* the last replacing event followed by the text deltas that arrived after it.
C24_ArrivalOrderFold == locals.responseContent = FoldedText(stream)

(***************************************************************************)
(* The progress callback                                                   *)
(***************************************************************************)
\* C25: with a callback, every step that changes responseText calls it with
\* the new text, and when the call returns a text, the last value the
\* callback received is that text.
C25_CallbackFollowsText ==
    [][onStreamUpdate =>
          /\ locals'.responseContent # locals.responseContent
                 => locals'.called /\ locals'.partial = locals'.responseContent
          /\ (outcome'.kind = "returned" /\ locals.responseContent # <<>>)
                 => locals.partial = outcome'.response.content]_vars

(***************************************************************************)
(* Messages the loop has no branch for                                     *)
(***************************************************************************)
\* the kinds of message the reducer is said to recognize
RecognizedKind(msg) ==
    \/ msg.type \in {"assistant", "tool_result", "tool_progress", "user", "result"}
    \/ IsTextDelta(msg)
    \/ msg.type = "system" /\ msg.subtype \in {"init", "compact_boundary"}

\* a system message of another subtype that carries a text
SystemText(msg) ==
    /\ msg.type = "system"
    /\ \/ Truthy(msg.message) /\ msg.message.kind = "string"
       \/ Truthy(msg.content) /\ msg.content.kind = "array"

\* the step delivers the message Delivered'
Delivers == Len(stream') = Len(stream) + 1
Delivered == stream[Len(stream)]

\* the step leaves the text, the tool invocations, the usage, the last value
\* the callback received and the commands, and calls no callback
OnlySessionIdChanges ==
    /\ locals'.responseContent = locals.responseContent
    /\ locals'.toolResults = locals.toolResults
    /\ locals'.usage = locals.usage
    /\ locals'.partial = locals.partial
    /\ ~locals'.called
    /\ availableCommands' = availableCommands

TotalIsSum(usage) == usage.totalTokens = usage.inputTokens + usage.outputTokens

\* C27: every usage record has totalTokens = inputTokens + outputTokens: the
\* record a reducer holds or returned, the usage of every session of the
\* store, and the usage of every persisted session.
C27_TotalIsSum ==
    /\ locals.usage # NoUsage => TotalIsSum(locals.usage)
    /\ \A i \in 1..Len(tasks) :
           tasks[i].rs.usage # NoUsage => TotalIsSum(tasks[i].rs.usage)
    /\ \A r \in DOMAIN heap : TotalIsSum(heap[r])
    /\ \A k \in 1..Len(disk.sessions) : TotalIsSum(disk.sessions[k].usage)

\* a session created by the store holds the merged usage of a turn whose
\* message lacked a counter
C27_Witness ==
    \E k \in 1..Len(sessions) :
        /\ sessions[k].id > 1
        /\ heap[sessions[k].usage].inputTokens = 0
        /\ heap[sessions[k].usage].outputTokens = 2
        /\ heap[sessions[k].usage].totalTokens = 2

\* the usage object msg carries, Undef if it carries none
CarriedUsage(msg) ==
    IF msg.type = "assistant" THEN msg.message.usage
    ELSE IF msg.type = "result" THEN msg.usage
    ELSE Undef

\* the usage record of the last message of the messages that carried
\* counters, NoUsage if none did
LastUsage(messages) ==
    LET carrying == {k \in 1..Len(messages) : Truthy(CarriedUsage(messages[k]))}
        last == CHOOSE k \in carrying : \A j \in carrying : j <= k
        counters == CarriedUsage(messages[last]).v
        inputTokens == OrZero(counters.input_tokens)
        outputTokens == OrZero(counters.output_tokens)
    IN IF carrying = {} THEN NoUsage
       ELSE [inputTokens |-> inputTokens,
             outputTokens |-> outputTokens,
             totalTokens |-> inputTokens + outputTokens,
             estimatedCost |-> calculateCost(inputTokens, outputTokens)]

\* C28: the usage of a turn is the one computed from the last message of the
\* stream that carried usage counters, assistant or result; earlier ones are
\* overwritten, and it is absent when no message carried counters.
C28_LastUsageWins ==
    /\ locals.usage = LastUsage(stream)
    /\ outcome.kind = "returned" => outcome.response.usage = LastUsage(stream)

\* a returned turn in which an assistant message and then a result message
\* carried different counters
C28_Witness ==
    /\ outcome.kind = "returned"
    /\ \E j, k \in 1..Len(stream) :
           /\ j < k
           /\ stream[j].type = "assistant" /\ Truthy(CarriedUsage(stream[j]))
           /\ stream[k].type = "result" /\ Truthy(CarriedUsage(stream[k]))
           /\ CarriedUsage(stream[j]) # CarriedUsage(stream[k])
           /\ \A m \in (k + 1)..Len(stream) : ~Truthy(CarriedUsage(stream[m]))
           /\ outcome.response.usage = UsageFrom(CarriedUsage(stream[k]).v)

\* a returned turn of messages without counters has no usage
C28_WitnessAbsent ==
    /\ outcome.kind = "returned"
    /\ Len(stream) >= 2
    /\ outcome.response.usage = NoUsage

(***************************************************************************)
(* The plugin settings and the session list share one file.  The plugin    *)
(* read the file when it loaded; the user creates and deletes sessions and *)
(* picks an environment template in the chat input.                        *)
(***************************************************************************)
Templates == {Str(<<"work">>), Str(<<"home">>)}

\* data.json when the plugin loads: none yet, or two sessions and a template
SettingsDisks ==
    {[sessions |-> <<>>],
     [sessions |-> <<NewerSession, OlderSession>>, activeTemplateId |-> Str(<<"work">>)]}

\* onTemplateChange: the setting is assigned and saveSettings writes
\* this.settings
ChangeTemplate(templateId) ==
    /\ Event("template", <<>>)
    /\ settings' = [settings EXCEPT !.activeTemplateId = templateId]
    /\ tasks' = Append(tasks, [Task("settings", "write", "saveSettings") EXCEPT
                                  !.pending = settings'])
    /\ UNCHANGED <<reducerVars, availableCommands, ui, rendered, sessions, loaded,
                   heap, disk, now, nextId, loads, requests>>

SettingsInit ==
    /\ onStreamUpdate = TRUE
    /\ stream = <<>>
    /\ locals = InitReducer
    /\ outcome = [kind |-> "pending"]
    /\ thrown = NoError
    /\ availableCommands = DEFAULT_SLASH_COMMANDS
    /\ ui = InitialUi
    /\ rendered = Snapshot(InitialUi)
    /\ sessions = <<>>
    /\ loaded = FALSE
    /\ heap = NoHeap
    /\ disk \in SettingsDisks
    /\ tasks = <<>>
    /\ now = StoreTime
    /\ nextId = 3
    /\ loads = 0
    /\ ops = 0
    /\ lastOp = NoOp
    /\ requests = 0
    /\ settings = loadSettings(disk)

SettingsNext ==
    \/ CallCreateNewSession
    \/ \E id \in CallIds : CallDeleteSession(id)
    \/ \E templateId \in Templates : ChangeTemplate(templateId)
    \/ \E i \in 1..Len(tasks) : LoadResolves(i)
    \/ \E i \in 1..Len(tasks) : ReadResolves(i)
    \/ \E i \in 1..Len(tasks) : WriteResolves(i)

SettingsSpec == SettingsInit /\ [][SettingsNext]_vars

\* the template the stored data holds
TemplateOf(data) ==
    IF "activeTemplateId" \in DOMAIN data THEN data.activeTemplateId
    ELSE DefaultTemplate

\* the step in which the saveData of a saveSettings lands
SettingsLand ==
    \E i \in 1..Len(tasks) :
        /\ tasks[i].kind = "settings"
        /\ tasks[i].pc = "write"
        /\ tasks' = Remove(tasks, i)
        /\ disk' = tasks[i].pending

\* the step in which the saveData of a persistSessions lands
PersistLands ==
    \E i \in 1..Len(tasks) :
        /\ tasks[i].kind = "call"
        /\ tasks[i].pc = "write"
        /\ tasks' = Remove(tasks, i)
        /\ disk' = tasks[i].pending

\* C29: a settings save leaves the persisted session list as the last
\* session persist wrote it, and a session persist leaves the persisted
\* settings as the last settings save wrote them.
C29_SettingsAndSessionsApart ==
    [][/\ SettingsLand => disk'.sessions = disk.sessions
       /\ PersistLands => TemplateOf(disk') = TemplateOf(disk)]_vars

(***************************************************************************)
(* The view mounts over a data file that may hold the setting              *)
(* maxSessionHistory; the user creates, selects and deletes sessions, and  *)
(* the command "New Claude Chat Session" calls the store directly.  The    *)
(* clock reads one time while the chains run.                              *)
(***************************************************************************)
\* values of maxSessionHistory a data file may hold
Histories == {0, 1}

MountDisks ==
    InitialDisks \cup
    {[sessions |-> d.sessions, maxSessionHistory |-> n] : d \in InitialDisks, n \in Histories}

MountInit ==
    /\ onStreamUpdate = TRUE
    /\ stream = <<>>
    /\ locals = InitReducer
    /\ outcome = [kind |-> "pending"]
    /\ thrown = NoError
    /\ availableCommands = DEFAULT_SLASH_COMMANDS
    /\ ui = [InitialUi EXCEPT !.slashCommands = DEFAULT_SLASH_COMMANDS]
    /\ rendered = Snapshot(InitialUi)
    /\ sessions = <<>>
    /\ loaded = FALSE
    /\ heap = NoHeap
    /\ disk \in MountDisks
    /\ tasks = <<Task("mount", "load", "getAll")>>
    /\ now \in 0..MaxTime
    /\ nextId = 2
    /\ loads = 0
    /\ ops = 0
    /\ lastOp = NoOp
    /\ requests = 0
    /\ settings = loadSettings(disk)

MountNext ==
    \/ \E k \in 1..Len(rendered.sessions) : Select(rendered.sessions[k])
    \/ Create
    \/ \E k \in 1..Len(rendered.sessions) : Delete(rendered.sessions[k])
    \/ CallCreateNewSession
    \/ \E i \in 1..Len(tasks) : LoadResolves(i)
    \/ \E i \in 1..Len(tasks) : ReadResolves(i)
    \/ \E i \in 1..Len(tasks) : WriteResolves(i)
    \/ Render

\* every loadData and saveData settles
MountSpec ==
    /\ MountInit
    /\ [][MountNext]_vars
    /\ WF_vars(\E i \in 1..Len(tasks) : LoadResolves(i))
    /\ WF_vars(\E i \in 1..Len(tasks) : ReadResolves(i))
    /\ WF_vars(\E i \in 1..Len(tasks) : WriteResolves(i))

\* the chains of the view that are between two awaits
Chains == {i \in 1..Len(tasks) : tasks[i].kind # "call"}

\* chain i returns in this step, out of loadSessions
LoadSessionsReturns(i) ==
    /\ tasks[i].kind = "mount" \/ tasks[i].op = "create"
    /\ tasks[i].pc \in {"load", "write"}
    /\ tasks' = Remove(tasks, i)

\* the selected session is one the store holds
CurrentInStore ==
    /\ ui.currentSession # Null
    /\ MapGet(sessions, ui.currentSession.id) # Null

\* identifiers given out since the view mounted
Created == nextId - 2

\* C30: for every value of maxSessionHistory, 0 included, loadSessions and
\* createNewSession create at most one session that no operation of the user
\* asked for, every chain of the view that is under way returns, and a chain
\* that returns out of loadSessions leaves a current session that the store
\* holds.
C30_RecursionEnds ==
    /\ [][Created' <= 1 + ops']_vars
    /\ [][\A i \in Chains : LoadSessionsReturns(i) => CurrentInStore']_vars
    /\ (Chains # {}) ~> (Chains = {})

\* the store keeps no session on disk, the view mounted over an empty file,
\* loadSessions created a session, createNewSession listed it and it is selected
C30_Witness ==
    /\ settings.maxSessionHistory = 0
    /\ ops = 0
    /\ Created = 1
    /\ tasks = <<>>
    /\ disk.sessions = <<>>
    /\ CurrentInStore

====
